---- MODULE Spec2Model ----
(***************************************************************************)
(* The ticket routing and assignment engine of                             *)
(* Backend/src/tickets/classifier/classifier.py (class TicketClassifier)   *)
(* with the routing tables of Backend/src/tickets/classifier/config.py.    *)
(*                                                                         *)
(* Ticket ids are natural numbers standing for distinct id strings.        *)
(* Each call of create_ticket and of close_ticket (with the drain it       *)
(* runs) is one step: the HTTP server of api.py serves one request at a    *)
(* time.  The states a drain passes through are recorded in drain_log.     *)
(*                                                                         *)
(* Spec          create_ticket and close_ticket, ids may be reused         *)
(* ScenarioSpec  a fresh engine, tickets T1, T2, ... created in order      *)
(* ApiSpec       with classify_ticket and get_status, with or without a    *)
(*               model                                                     *)
(* ServerSpec    the server and its clients, the two calls in two steps    *)
(* RoutingSpec   with _find_available_agent called on its own              *)
(* QueueSpec     an engine at capacity, queues of several tickets          *)
(* PrioritySpec  an engine at capacity, tickets of two priorities          *)
(* LiveSpec      finitely many creates, no ticket left pending for ever    *)
(***************************************************************************)
EXTENDS Integers, Sequences, FiniteSets, TLC

\* config.py: MAX_TICKETS_PER_AGENT
MAX_TICKETS_PER_AGENT == 5

\* Bound of the model: the number of successful create_ticket calls.
MaxCreates == 2

None == "None"

\* The keys of TicketClassifier.agent_tickets in insertion order (the order
\* in which dict.keys() iterates).
AGENT_ORDER == <<"Agent 1", "Agent 2", "Agent 3">>

Agents == {AGENT_ORDER[i] : i \in 1..Len(AGENT_ORDER)}

AGENT_SPECIALIZATIONS ==
    [a \in Agents |-> CASE a = "Agent 1" -> "software"
                        [] a = "Agent 2" -> "hardware"
                        [] a = "Agent 3" -> "network"]

PRIORITY_LEVELS == {"high", "medium", "low"}

TICKET_TYPES == {"software", "hardware", "network"}

TICKET_STATUS == [OPEN |-> "open", PENDING |-> "pending", CLOSED |-> "closed"]

\* Mutant: software tickets have the hardware specialist as primary agent.
TYPE_TO_PRIMARY_AGENT_SoftwareToHardware(ticket_type) ==
    CASE ticket_type = "software" -> "Agent 2"
      [] ticket_type = "hardware" -> "Agent 2"
      [] ticket_type = "network"  -> "Agent 3"
      [] OTHER -> None

\* TYPE_TO_PRIMARY_AGENT.get(ticket_type): None for a key that is absent.
TYPE_TO_PRIMARY_AGENT(ticket_type) ==
    CASE ticket_type = "software" -> "Agent 1"
      [] ticket_type = "hardware" -> "Agent 2"
      [] ticket_type = "network"  -> "Agent 3"
      [] OTHER -> None

\* Mutant: no fallback list for any (priority, type).
SECONDARY_ASSIGNMENTS_Empty(priority, ticket_type) == << >>

\* SECONDARY_ASSIGNMENTS.get((priority, ticket_type), [])
SECONDARY_ASSIGNMENTS(priority, ticket_type) ==
    CASE priority = "medium" /\ ticket_type = "network"  -> <<"Agent 3", "Agent 1">>
      [] priority = "medium" /\ ticket_type = "software" -> <<"Agent 1", "Agent 2">>
      [] priority = "medium" /\ ticket_type = "hardware" -> <<"Agent 2", "Agent 3">>
      [] priority = "low" /\ ticket_type = "hardware"    -> <<"Agent 2", "Agent 1">>
      [] priority = "low" /\ ticket_type = "network"     -> <<"Agent 3", "Agent 2">>
      [] priority = "low" /\ ticket_type = "software"    -> <<"Agent 1", "Agent 3">>
      [] OTHER -> << >>

\* str.lower() on the strings of CreateInputs.
Lower(s) ==
    CASE s = "HIGH"    -> "high"
      [] s = "Low"     -> "low"
      [] s = "Network" -> "network"
      [] s = "Urgent"  -> "urgent"
      [] OTHER -> s

\* The (priority, type) arguments create_ticket is called with.
CreateInputs ==
    { <<"high", "software">>, <<"high", "hardware">>, <<"medium", "hardware">>,
      <<"low", "network">>, <<"HIGH", "software">>, <<"Low", "Network">>,
      <<"Urgent", "software">>, <<"high", "printer">>, <<"critical", "phone">> }

VARIABLES
    tickets,                \* TicketClassifier.tickets: id -> Ticket
    agent_tickets,          \* TicketClassifier.agent_tickets: agent -> list of ids
    high_priority_queue,    \* deque of ids
    medium_priority_queue,  \* deque of ids
    low_priority_queue,     \* deque of ids
    result,                 \* what the last call returned or raised
    drain_log,              \* the drain the last call ran: its entry and its visits
    nCreates,               \* successful create_ticket calls so far
    repeated,               \* some create_ticket reused a stored id
    nn,                     \* TicketClassifier.nn: the model loaded, or None
    handlers                \* per client: where the handler of its request is

vars == <<tickets, agent_tickets, high_priority_queue, medium_priority_queue,
          low_priority_queue, result, drain_log, nCreates, repeated, nn,
          handlers>>

engine == <<tickets, agent_tickets, high_priority_queue, medium_priority_queue,
            low_priority_queue>>


(***************************************************************************)
(* Helpers                                                                 *)
(***************************************************************************)

\* list.remove(x) and deque.remove(x): drop the first occurrence of x.
RECURSIVE Remove(_, _)
Remove(seq, x) ==
    IF seq = << >> THEN << >>
    ELSE IF Head(seq) = x THEN Tail(seq)
    ELSE <<Head(seq)>> \o Remove(Tail(seq), x)

\* Mutant: the removal loop of a drain leaves the queue as it was.
RemoveEach_Nothing(queue, tickets_to_remove) == queue

\* "for ticket_id in tickets_to_remove: queue.remove(ticket_id)"
RECURSIVE RemoveEach(_, _)
RemoveEach(queue, tickets_to_remove) ==
    IF tickets_to_remove = << >> THEN queue
    ELSE RemoveEach(Remove(queue, Head(tickets_to_remove)), Tail(tickets_to_remove))

\* "x in list"
Contains(seq, x) == \E i \in 1..Len(seq) : seq[i] = x

get_agent_load(at, agent) == Len(at[agent])

\* Mutant: the capacity test admits an agent that is already at capacity.
is_agent_available_AtCapacity(at, agent) ==
    get_agent_load(at, agent) <= MAX_TICKETS_PER_AGENT

is_agent_available(at, agent) == get_agent_load(at, agent) < MAX_TICKETS_PER_AGENT

\* "for agent in agents: if self.is_agent_available(agent): return agent"
RECURSIVE FirstAvailable(_, _)
FirstAvailable(at, agents) ==
    IF agents = << >> THEN None
    ELSE IF is_agent_available(at, Head(agents)) THEN Head(agents)
    ELSE FirstAvailable(at, Tail(agents))

\* Mutant: a high-priority ticket falls through to the fallback agents.
find_available_agent_NoHighRule(at, priority0, ticket_type0) ==
    LET priority == Lower(priority0)
        ticket_type == Lower(ticket_type0)
        primary_agent == TYPE_TO_PRIMARY_AGENT(ticket_type)
        secondary == FirstAvailable(at, SECONDARY_ASSIGNMENTS(priority, ticket_type))
    IN  IF primary_agent # None /\ is_agent_available(at, primary_agent)
          THEN primary_agent
        ELSE IF secondary # None THEN secondary
        ELSE FirstAvailable(at, AGENT_ORDER)

\* Mutant: a medium or low ticket goes to the first agent with a free slot,
\* its specialist or not.
find_available_agent_AnyAgentFirst(at, priority0, ticket_type0) ==
    LET priority == Lower(priority0)
        ticket_type == Lower(ticket_type0)
        primary_agent == TYPE_TO_PRIMARY_AGENT(ticket_type)
    IN  IF priority # "high" THEN FirstAvailable(at, AGENT_ORDER)
        ELSE IF primary_agent # None /\ is_agent_available(at, primary_agent)
          THEN primary_agent
        ELSE None

\* The available agent with the fewest tickets, the first of them in the
\* order of AGENT_ORDER; None when no agent is available.
LeastLoaded(at) ==
    LET free == {i \in 1..Len(AGENT_ORDER) : is_agent_available(at, AGENT_ORDER[i])}
        best == {i \in free : \A j \in free :
                    \/ Len(at[AGENT_ORDER[i]]) < Len(at[AGENT_ORDER[j]])
                    \/ (Len(at[AGENT_ORDER[i]]) = Len(at[AGENT_ORDER[j]]) /\ i <= j)}
    IN  IF free = {} THEN None ELSE AGENT_ORDER[CHOOSE i \in best : TRUE]

\* Mutant: when the specialist is at capacity a medium or low ticket goes to
\* the agent with the fewest tickets.
find_available_agent_LeastLoaded(at, priority0, ticket_type0) ==
    LET priority == Lower(priority0)
        ticket_type == Lower(ticket_type0)
        primary_agent == TYPE_TO_PRIMARY_AGENT(ticket_type)
    IN  IF primary_agent # None /\ is_agent_available(at, primary_agent)
          THEN primary_agent
        ELSE IF priority = "high" THEN None
        ELSE LeastLoaded(at)

\* Mutant: no agent outside the fallback list is tried.
find_available_agent_NoAnyAgent(at, priority0, ticket_type0) ==
    LET priority == Lower(priority0)
        ticket_type == Lower(ticket_type0)
        primary_agent == TYPE_TO_PRIMARY_AGENT(ticket_type)
    IN  IF primary_agent # None /\ is_agent_available(at, primary_agent)
          THEN primary_agent
        ELSE IF priority = "high" THEN None
        ELSE FirstAvailable(at, SECONDARY_ASSIGNMENTS(priority, ticket_type))

\* TicketClassifier._find_available_agent on the workloads at.
find_available_agent(at, priority0, ticket_type0) ==
    LET priority == Lower(priority0)
        ticket_type == Lower(ticket_type0)
        primary_agent == TYPE_TO_PRIMARY_AGENT(ticket_type)
        secondary == FirstAvailable(at, SECONDARY_ASSIGNMENTS(priority, ticket_type))
    IN  IF primary_agent # None /\ is_agent_available(at, primary_agent)
          THEN primary_agent
        ELSE IF priority = "high" THEN None
        ELSE IF secondary # None THEN secondary
        ELSE FirstAvailable(at, AGENT_ORDER)

\* Mutant: medium-priority tickets are queued with the low-priority ones.
get_queue_for_priority_MediumAsLow(priority) ==
    IF priority = "high" THEN 1 ELSE 3

\* TicketClassifier._get_queue_for_priority, as the index of the queue in
\* the order _process_queues visits them (1 high, 2 medium, 3 low).
get_queue_for_priority(priority) ==
    IF priority = "high" THEN 1
    ELSE IF priority = "medium" THEN 2
    ELSE 3

\* Ticket(id=..., priority=..., ticket_type=..., neural_network_prediction=...):
\* status open, no agent.
NewTicket(priority, ticket_type, nn_prediction) ==
    [priority |-> priority, ticket_type |-> ticket_type,
     status |-> TICKET_STATUS.OPEN, assigned_agent |-> None,
     neural_network_prediction |-> nn_prediction]

(***************************************************************************)
(* The advisory classifier.  The weights of the network come from a model  *)
(* file; two weight sets stand for the files there can be: one predicts    *)
(* the agent from the type of the ticket, the other from its priority.     *)
(***************************************************************************)
Models == {"by_type", "by_priority"}

\* TicketClassifier.model_loaded
model_loaded(model) == model # None

\* AGENT_DECODING[self.nn.predict(x)[0]] for the encoded (priority, ticket_type).
predict_agent(model, priority, ticket_type) ==
    IF model = "by_type"
      THEN CASE ticket_type = "software" -> "Agent 1"
             [] ticket_type = "hardware" -> "Agent 2"
             [] ticket_type = "network"  -> "Agent 3"
      ELSE CASE priority = "low"    -> "Agent 1"
             [] priority = "medium" -> "Agent 2"
             [] priority = "high"   -> "Agent 3"

\* "if self.model_loaded: nn_prediction, ... = self.predict_agent(...)",
\* otherwise nn_prediction stays None.
nn_prediction_for(model, priority, ticket_type) ==
    IF model_loaded(model) THEN predict_agent(model, priority, ticket_type) ELSE None

(***************************************************************************)
(* Initial states: the engine as constructed (no ticket), and the engine   *)
(* after create_ticket calls for (high, own type) tickets have loaded each *)
(* specialist to capacity.                                                 *)
(***************************************************************************)

AgentIndex(a) == CHOOSE i \in 1..Len(AGENT_ORDER) : AGENT_ORDER[i] = a

\* The id of the i-th ticket preloaded on agent a.
PreId(a, i) == (AgentIndex(a) - 1) * MAX_TICKETS_PER_AGENT + i

NumPre == Len(AGENT_ORDER) * MAX_TICKETS_PER_AGENT

\* The ids create_ticket is called with.
DynIds == (NumPre + 1)..(NumPre + MaxCreates)

\* The preloaded tickets close_ticket is called with: the second of each agent.
PreCloseIds == {PreId(a, 2) : a \in Agents}

CloseIds == DynIds \cup PreCloseIds

\* The clients whose requests the server handles.
Clients == {"client 1", "client 2"}

\* No request of the client is in the server.
Idle == [pc |-> "none", ticket_id |-> 0, agent |-> None]

InitLoads == {[a \in Agents |-> 0], [a \in Agents |-> MAX_TICKETS_PER_AGENT]}

NoResult == [kind |-> "none"]

\* The engine with loads[a] (high, own type) tickets pending on each agent a
\* and nothing queued.
InitEngine(loads, model) ==
    /\ tickets =
         [id \in UNION {{PreId(a, i) : i \in 1..loads[a]} : a \in Agents}
           |-> LET a == CHOOSE b \in Agents : \E i \in 1..loads[b] : PreId(b, i) = id
               IN  [priority |-> "high",
                    ticket_type |-> AGENT_SPECIALIZATIONS[a],
                    status |-> TICKET_STATUS.PENDING,
                    assigned_agent |-> a,
                    neural_network_prediction |->
                        nn_prediction_for(model, "high", AGENT_SPECIALIZATIONS[a])]]
    /\ agent_tickets = [a \in Agents |-> [i \in 1..loads[a] |-> PreId(a, i)]]
    /\ high_priority_queue = << >>
    /\ medium_priority_queue = << >>
    /\ low_priority_queue = << >>
    /\ result = NoResult
    /\ drain_log = << >>
    /\ nCreates = 0
    /\ repeated = FALSE
    /\ nn = model
    /\ handlers = [c \in Clients |-> Idle]

\* No model file comes with the classifier: the default path does not exist
\* and no model is loaded.
Init == \E loads \in InitLoads : InitEngine(loads, None)


(***************************************************************************)
(* TicketClassifier.create_ticket                                          *)
(***************************************************************************)

\* Mutant: only the priority is validated.
ValidInput_PriorityOnly(priority, ticket_type) ==
    Lower(priority) \in PRIORITY_LEVELS

\* The validation of create_ticket: the lowercased priority and type must be
\* members of PRIORITY_LEVELS and TICKET_TYPES.
ValidInput(priority, ticket_type) ==
    priority \in PRIORITY_LEVELS /\ ticket_type \in TICKET_TYPES

\* self.tickets[ticket_id] = ticket
Store(tk, ticket_id, ticket) ==
    [id \in DOMAIN tk \cup {ticket_id} |-> IF id = ticket_id THEN ticket ELSE tk[id]]

\* Mutant: the ticket goes to the agent the classifier predicts whenever
\* that agent has a free slot.
create_ticket_FollowPrediction(tk, at, qs, ticket_id, priority, ticket_type, nn_prediction) ==
    LET assigned_agent ==
            IF nn_prediction # None /\ is_agent_available(at, nn_prediction)
              THEN nn_prediction
              ELSE find_available_agent(at, priority, ticket_type)
        stored == Store(tk, ticket_id, NewTicket(priority, ticket_type, nn_prediction))
        queue == get_queue_for_priority(priority)
    IN  IF assigned_agent # None
          THEN [tickets |-> [stored EXCEPT ![ticket_id].assigned_agent = assigned_agent,
                                           ![ticket_id].status = TICKET_STATUS.PENDING],
                agent_tickets |-> [at EXCEPT ![assigned_agent] = Append(@, ticket_id)],
                queues |-> qs]
          ELSE [tickets |-> [stored EXCEPT ![ticket_id].status = TICKET_STATUS.OPEN],
                agent_tickets |-> at,
                queues |-> [qs EXCEPT ![queue] = Append(@, ticket_id)]]

\* Mutant: a ticket that finds no agent is put at the head of its queue.
create_ticket_EnqueueAtHead(tk, at, qs, ticket_id, priority, ticket_type, nn_prediction) ==
    LET assigned_agent == find_available_agent(at, priority, ticket_type)
        stored == Store(tk, ticket_id, NewTicket(priority, ticket_type, nn_prediction))
        queue == get_queue_for_priority(priority)
    IN  IF assigned_agent # None
          THEN [tickets |-> [stored EXCEPT ![ticket_id].assigned_agent = assigned_agent,
                                           ![ticket_id].status = TICKET_STATUS.PENDING],
                agent_tickets |-> [at EXCEPT ![assigned_agent] = Append(@, ticket_id)],
                queues |-> qs]
          ELSE [tickets |-> [stored EXCEPT ![ticket_id].status = TICKET_STATUS.OPEN],
                agent_tickets |-> at,
                queues |-> [qs EXCEPT ![queue] = <<ticket_id>> \o @]]

\* The ticket is stored, then routed: appended to the workload of the agent
\* found, or to the queue of its priority.  The store, the workloads and the
\* three queues after create_ticket on store tk, workloads at, queues qs.
create_ticket(tk, at, qs, ticket_id, priority, ticket_type, nn_prediction) ==
    LET assigned_agent == find_available_agent(at, priority, ticket_type)
        stored == Store(tk, ticket_id, NewTicket(priority, ticket_type, nn_prediction))
        queue == get_queue_for_priority(priority)
    IN  IF assigned_agent # None
          THEN [tickets |-> [stored EXCEPT ![ticket_id].assigned_agent = assigned_agent,
                                           ![ticket_id].status = TICKET_STATUS.PENDING],
                agent_tickets |-> [at EXCEPT ![assigned_agent] = Append(@, ticket_id)],
                queues |-> qs]
          ELSE [tickets |-> [stored EXCEPT ![ticket_id].status = TICKET_STATUS.OPEN],
                agent_tickets |-> at,
                queues |-> [qs EXCEPT ![queue] = Append(@, ticket_id)]]

CreateValid(ticket_id, priority, ticket_type) ==
    LET nn_prediction == nn_prediction_for(nn, priority, ticket_type)
        c == create_ticket(tickets, agent_tickets,
                           <<high_priority_queue, medium_priority_queue,
                             low_priority_queue>>,
                           ticket_id, priority, ticket_type, nn_prediction)
    IN  /\ tickets' = c.tickets
        /\ agent_tickets' = c.agent_tickets
        /\ high_priority_queue' = c.queues[1]
        /\ medium_priority_queue' = c.queues[2]
        /\ low_priority_queue' = c.queues[3]
        /\ result' = [kind |-> "created",
                      ticket_id |-> ticket_id,
                      status |-> c.tickets[ticket_id].status,
                      assigned_agent |-> c.tickets[ticket_id].assigned_agent,
                      neural_network_prediction |-> nn_prediction,
                      queued |-> (c.tickets[ticket_id].status = TICKET_STATUS.OPEN)]
        /\ nCreates' = nCreates + 1
        /\ repeated' = (repeated \/ ticket_id \in DOMAIN tickets)
        /\ UNCHANGED <<nn, handlers>>

\* Mutant: an id that is already stored is refused.
CreateTicket_RejectDuplicate(ticket_id, raw_priority, raw_type) ==
    LET priority == Lower(raw_priority)
        ticket_type == Lower(raw_type)
    IN  /\ IF ~ValidInput(priority, ticket_type) \/ ticket_id \in DOMAIN tickets
             THEN /\ result' = [kind |-> "ValueError"]
                  /\ UNCHANGED <<engine, nCreates, repeated, nn, handlers>>
             ELSE /\ nCreates < MaxCreates
                  /\ CreateValid(ticket_id, priority, ticket_type)
        /\ drain_log' = << >>

CreateTicket(ticket_id, raw_priority, raw_type) ==
    LET priority == Lower(raw_priority)
        ticket_type == Lower(raw_type)
    IN  /\ IF ~ValidInput(priority, ticket_type)
             THEN /\ result' = [kind |-> "ValueError"]
                  /\ UNCHANGED <<engine, nCreates, repeated, nn, handlers>>
             ELSE /\ nCreates < MaxCreates
                  /\ CreateValid(ticket_id, priority, ticket_type)
        /\ drain_log' = << >>

(***************************************************************************)
(* TicketClassifier._process_queues                                        *)
(***************************************************************************)

\* Mutant: the visits of a queue stop at the first ticket that finds no agent.
RECURSIVE VisitQueue_StopAtFailure(_, _, _, _)
VisitQueue_StopAtFailure(d, q, queue, pos) ==
    IF pos > Len(queue) THEN d
    ELSE
      LET ticket_id == queue[pos]
          ticket == d.tickets[ticket_id]
          agent == find_available_agent(d.agent_tickets, ticket.priority,
                                        ticket.ticket_type)
          after ==
            IF agent # None
              THEN [d EXCEPT
                      !.tickets[ticket_id].assigned_agent = agent,
                      !.tickets[ticket_id].status = TICKET_STATUS.PENDING,
                      !.agent_tickets[agent] = Append(@, ticket_id),
                      !.tickets_to_remove = Append(@, ticket_id),
                      !.newly_assigned = Append(@, <<ticket_id, agent>>)]
              ELSE d
          visit == [queue |-> q, ticket_id |-> ticket_id, agent |-> agent,
                    agent_tickets |-> after.agent_tickets]
          logged == [after EXCEPT !.log = Append(@, visit)]
      IN  IF agent = None THEN logged
          ELSE VisitQueue_StopAtFailure(logged, q, queue, pos + 1)

\* "for ticket_id in queue" from position pos on.  d holds the tickets, the
\* workloads, tickets_to_remove, newly_assigned and the log of the visits.
RECURSIVE VisitQueue(_, _, _, _)
VisitQueue(d, q, queue, pos) ==
    IF pos > Len(queue) THEN d
    ELSE
      LET ticket_id == queue[pos]
          ticket == d.tickets[ticket_id]
          agent == find_available_agent(d.agent_tickets, ticket.priority,
                                        ticket.ticket_type)
          after ==
            IF agent # None
              THEN [d EXCEPT
                      !.tickets[ticket_id].assigned_agent = agent,
                      !.tickets[ticket_id].status = TICKET_STATUS.PENDING,
                      !.agent_tickets[agent] = Append(@, ticket_id),
                      !.tickets_to_remove = Append(@, ticket_id),
                      !.newly_assigned = Append(@, <<ticket_id, agent>>)]
              ELSE d
          visit == [queue |-> q, ticket_id |-> ticket_id, agent |-> agent,
                    agent_tickets |-> after.agent_tickets]
      IN  VisitQueue([after EXCEPT !.log = Append(@, visit)], q, queue, pos + 1)

\* Mutant: the drain moves the first ticket it leaves in queue q to the tail.
DrainQueue_Rotate(d, q) ==
    LET v == VisitQueue([d EXCEPT !.tickets_to_remove = << >>], q, d.queues[q], 1)
        left == RemoveEach(v.queues[q], v.tickets_to_remove)
    IN  [v EXCEPT !.queues[q] = IF left = << >> THEN << >>
                                ELSE Append(Tail(left), Head(left))]

\* Mutant: the assignments made from queue q are not reported.
DrainQueue_Unreported(d, q) ==
    LET v == VisitQueue([d EXCEPT !.tickets_to_remove = << >>], q, d.queues[q], 1)
    IN  [v EXCEPT !.queues[q] = RemoveEach(@, v.tickets_to_remove),
                  !.newly_assigned = d.newly_assigned]

\* The body of "for queue in [high, medium, low]" for queue number q: the
\* visits, then the removal of the tickets assigned.
DrainQueue(d, q) ==
    LET v == VisitQueue([d EXCEPT !.tickets_to_remove = << >>], q, d.queues[q], 1)
    IN  [v EXCEPT !.queues[q] = RemoveEach(@, v.tickets_to_remove)]

\* Mutant: the queues are drained low first, then medium, then high.
process_queues_LowFirst(tk, at, queues) ==
    LET enter == [queue |-> 0, ticket_id |-> 0, agent |-> None, agent_tickets |-> at]
        d == [tickets |-> tk, agent_tickets |-> at, queues |-> queues,
              tickets_to_remove |-> << >>, newly_assigned |-> << >>,
              log |-> <<enter>>]
    IN  DrainQueue(DrainQueue(DrainQueue(d, 3), 2), 1)

\* Mutant: the high queue is drained a second time before the other queues.
process_queues_HighTwice(tk, at, queues) ==
    LET enter == [queue |-> 0, ticket_id |-> 0, agent |-> None, agent_tickets |-> at]
        d == [tickets |-> tk, agent_tickets |-> at, queues |-> queues,
              tickets_to_remove |-> << >>, newly_assigned |-> << >>,
              log |-> <<enter>>]
    IN  DrainQueue(DrainQueue(DrainQueue(DrainQueue(d, 1), 1), 2), 3)

\* The log starts with the workloads _process_queues is entered with (queue 0,
\* no ticket) and records the workloads after each visit.
process_queues(tk, at, queues) ==
    LET enter == [queue |-> 0, ticket_id |-> 0, agent |-> None, agent_tickets |-> at]
        d == [tickets |-> tk, agent_tickets |-> at, queues |-> queues,
              tickets_to_remove |-> << >>, newly_assigned |-> << >>,
              log |-> <<enter>>]
    IN  DrainQueue(DrainQueue(DrainQueue(d, 1), 2), 3)

(***************************************************************************)
(* TicketClassifier.close_ticket                                           *)
(***************************************************************************)

\* Mutant: the oldest ticket of the agent is dropped instead of ticket_id.
RemoveFromAgent_Oldest(at, agent, ticket_id) ==
    IF agent # None /\ Contains(at[agent], ticket_id)
      THEN [at EXCEPT ![agent] = Tail(@)]
      ELSE at

\* "if agent and ticket_id in self.agent_tickets[agent]: ...remove(ticket_id)"
RemoveFromAgent(at, agent, ticket_id) ==
    IF agent # None /\ Contains(at[agent], ticket_id)
      THEN [at EXCEPT ![agent] = Remove(@, ticket_id)]
      ELSE at

\* Mutant: the status of the ticket is left as it was.
MarkClosed_Not(tk, ticket_id) == tk

\* Mutant: the closed ticket is taken out of the store.
MarkClosed_Delete(tk, ticket_id) == [id \in DOMAIN tk \ {ticket_id} |-> tk[id]]

\* The ticket store after "ticket.status = TICKET_STATUS['CLOSED']".
MarkClosed(tk, ticket_id) == [tk EXCEPT ![ticket_id].status = TICKET_STATUS.CLOSED]

\* Mutant: the slot of the closed ticket is not given back.
Freed_NoSlot(ticket_id) == agent_tickets

\* Mutant: closing a ticket gives back every slot of its agent.
Freed_AllOfAgent(ticket_id) ==
    LET agent == tickets[ticket_id].assigned_agent
    IN  IF agent # None /\ Contains(agent_tickets[agent], ticket_id)
          THEN [agent_tickets EXCEPT ![agent] = << >>]
          ELSE agent_tickets

\* The workloads close_ticket hands to _process_queues.
Freed(ticket_id) ==
    RemoveFromAgent(agent_tickets, tickets[ticket_id].assigned_agent, ticket_id)

\* close_ticket on a stored ticket: the "already closed" return, or the
\* closing, the removal from the workload and the drain.
CloseKnown(ticket_id) ==
    IF tickets[ticket_id].status = TICKET_STATUS.CLOSED
      THEN /\ result' = [kind |-> "already closed", ticket_id |-> ticket_id]
           /\ drain_log' = << >>
           /\ UNCHANGED engine
      ELSE LET agent == tickets[ticket_id].assigned_agent
               d == process_queues(MarkClosed(tickets, ticket_id), Freed(ticket_id),
                                   <<high_priority_queue, medium_priority_queue,
                                     low_priority_queue>>)
           IN  /\ tickets' = d.tickets
               /\ agent_tickets' = d.agent_tickets
               /\ high_priority_queue' = d.queues[1]
               /\ medium_priority_queue' = d.queues[2]
               /\ low_priority_queue' = d.queues[3]
               /\ drain_log' = d.log
               /\ result' = [kind |-> "closed",
                             ticket_id |-> ticket_id,
                             status |-> TICKET_STATUS.CLOSED,
                             freed_agent |-> agent,
                             newly_assigned_tickets |-> d.newly_assigned]

\* Mutant: an id that is not stored is answered like a closed ticket.
CloseTicket_UnknownAsClosed(ticket_id) ==
    /\ IF ticket_id \notin DOMAIN tickets
         THEN /\ result' = [kind |-> "already closed", ticket_id |-> ticket_id]
              /\ drain_log' = << >>
              /\ UNCHANGED engine
         ELSE CloseKnown(ticket_id)
    /\ UNCHANGED <<nCreates, repeated, nn, handlers>>

CloseTicket(ticket_id) ==
    /\ IF ticket_id \notin DOMAIN tickets
         THEN /\ result' = [kind |-> "NotFound"]
              /\ drain_log' = << >>
              /\ UNCHANGED engine
         ELSE CloseKnown(ticket_id)
    /\ UNCHANGED <<nCreates, repeated, nn, handlers>>

(***************************************************************************)
(* The specification                                                       *)
(***************************************************************************)

\* The smallest id no create_ticket call has used yet.
NextFreshId == NumPre + 1 + Cardinality(DynIds \cap DOMAIN tickets)

Next ==
    \/ \E ticket_id \in DynIds, input \in CreateInputs :
         /\ ticket_id <= NextFreshId
         /\ CreateTicket(ticket_id, input[1], input[2])
    \/ \E ticket_id \in CloseIds : CloseTicket(ticket_id)

Spec == Init /\ [][Next]_vars


(***************************************************************************)
(* Definitions shared by the properties                                    *)
(***************************************************************************)
(* The scenarios of a fresh engine: tickets T1, T2, ... are created in     *)
(* this order on an engine constructed empty, and closed in any order.     *)
(***************************************************************************)

\* One ticket more than an agent can hold.
MaxScenarioCreates == MAX_TICKETS_PER_AGENT + 1

ScenarioIds == 1..MaxScenarioCreates

ScenarioInputs == {<<"high", "software">>, <<"medium", "hardware">>}

ScenarioInit == InitEngine([a \in Agents |-> 0], None)

\* create_ticket for the next ticket of the scenario.
ScenarioCreate(priority, ticket_type) ==
    /\ nCreates < MaxScenarioCreates
    /\ CreateValid(nCreates + 1, priority, ticket_type)
    /\ drain_log' = << >>

ScenarioNext ==
    \/ \E input \in ScenarioInputs : ScenarioCreate(input[1], input[2])
    \/ \E ticket_id \in ScenarioIds : CloseTicket(ticket_id)

ScenarioSpec == ScenarioInit /\ [][ScenarioNext]_vars

(***************************************************************************)
(* The classifier with or without a model: create_ticket, close_ticket,    *)
(* classify_ticket and get_status.                                         *)
(***************************************************************************)

\* Mutant: the tickets of the low queue are not counted as pending.
get_status_LowNotCounted(tk, at, qs, model) ==
    [kind |-> "status",
     model_loaded |-> model_loaded(model),
     agent_workloads |->
         [a \in Agents |-> [current_tickets |-> Len(at[a]),
                            max_capacity |-> MAX_TICKETS_PER_AGENT,
                            available |-> Len(at[a]) < MAX_TICKETS_PER_AGENT,
                            ticket_ids |-> at[a],
                            specialization |-> AGENT_SPECIALIZATIONS[a]]],
     queues |-> [high_priority |-> qs[1], medium_priority |-> qs[2],
                 low_priority |-> qs[3]],
     total_tickets |-> Cardinality(DOMAIN tk),
     pending_in_queue |-> Len(qs[1]) + Len(qs[2])]

\* The dictionary get_status returns.
get_status(tk, at, qs, model) ==
    [kind |-> "status",
     model_loaded |-> model_loaded(model),
     agent_workloads |->
         [a \in Agents |-> [current_tickets |-> Len(at[a]),
                            max_capacity |-> MAX_TICKETS_PER_AGENT,
                            available |-> Len(at[a]) < MAX_TICKETS_PER_AGENT,
                            ticket_ids |-> at[a],
                            specialization |-> AGENT_SPECIALIZATIONS[a]]],
     queues |-> [high_priority |-> qs[1], medium_priority |-> qs[2],
                 low_priority |-> qs[3]],
     total_tickets |-> Cardinality(DOMAIN tk),
     pending_in_queue |-> Len(qs[1]) + Len(qs[2]) + Len(qs[3])]

GetStatus ==
    /\ result' = get_status(tickets, agent_tickets,
                            <<high_priority_queue, medium_priority_queue,
                              low_priority_queue>>, nn)
    /\ drain_log' = << >>
    /\ UNCHANGED <<engine, nCreates, repeated, nn, handlers>>

\* The keys of PRIORITY_ENCODING and of TYPE_ENCODING.
PRIORITY_ENCODING == {"low", "medium", "high"}

TYPE_ENCODING == {"software", "hardware", "network"}

\* What classify_ticket returns or raises: RuntimeError without a model,
\* KeyError from _encode_input for a priority or type it cannot encode.
classify_ticket(model, priority, ticket_type) ==
    IF ~model_loaded(model)
      THEN [kind |-> "RuntimeError"]
    ELSE IF Lower(priority) \notin PRIORITY_ENCODING \/ Lower(ticket_type) \notin TYPE_ENCODING
      THEN [kind |-> "KeyError"]
    ELSE [kind |-> "classified",
          priority |-> priority,
          type |-> ticket_type,
          predicted_agent |-> predict_agent(model, Lower(priority), Lower(ticket_type))]

\* Mutant: the ticket classified is also stored, under the next fresh id.
ClassifyTicket_Stores(priority, ticket_type) ==
    /\ result' = classify_ticket(nn, priority, ticket_type)
    /\ drain_log' = << >>
    /\ tickets' = IF result'.kind = "classified"
                    THEN Store(tickets, NumPre + MaxCreates,
                               NewTicket(Lower(priority), Lower(ticket_type), None))
                    ELSE tickets
    /\ UNCHANGED <<agent_tickets, high_priority_queue, medium_priority_queue,
                   low_priority_queue, nCreates, repeated, nn, handlers>>

ClassifyTicket(priority, ticket_type) ==
    /\ result' = classify_ticket(nn, priority, ticket_type)
    /\ drain_log' = << >>
    /\ UNCHANGED <<engine, nCreates, repeated, nn, handlers>>

\* The engine as constructed or loaded to capacity, with no model file or
\* with one of the model files.
ApiInit == \E loads \in InitLoads, model \in Models \cup {None} : InitEngine(loads, model)

ApiNext ==
    \/ \E ticket_id \in DynIds, input \in CreateInputs :
         /\ ticket_id <= NextFreshId
         /\ CreateTicket(ticket_id, input[1], input[2])
    \/ \E ticket_id \in CloseIds : CloseTicket(ticket_id)
    \/ \E input \in CreateInputs : ClassifyTicket(input[1], input[2])
    \/ GetStatus

ApiSpec == ApiInit /\ [][ApiNext]_vars

(***************************************************************************)
(* _find_available_agent called on its own, on the engine as constructed   *)
(* and on engines whose agents are at capacity or one ticket below it.     *)
(***************************************************************************)

\* Bound of the model: the number of successful create_ticket calls.
MaxRoutingCreates == 1

RoutingLoads ==
    {[a \in Agents |-> 0]}
    \cup [Agents -> {MAX_TICKETS_PER_AGENT - 1, MAX_TICKETS_PER_AGENT}]

RoutingInit == \E loads \in RoutingLoads : InitEngine(loads, None)

\* Mutant: the search reserves a slot on the agent it returns.
DecideAssignment_Reserves(priority, ticket_type) ==
    LET agent == find_available_agent(agent_tickets, priority, ticket_type)
    IN  /\ result' = [kind |-> "agent", priority |-> priority,
                      ticket_type |-> ticket_type, agent |-> agent]
        /\ agent_tickets' = IF agent = None THEN agent_tickets
                            ELSE [agent_tickets EXCEPT ![agent] = Append(@, 0)]
        /\ drain_log' = << >>
        /\ UNCHANGED <<tickets, high_priority_queue, medium_priority_queue,
                       low_priority_queue, nCreates, repeated, nn, handlers>>

\* self._find_available_agent(priority, ticket_type); the result records the
\* arguments and the agent returned.
DecideAssignment(priority, ticket_type) ==
    /\ result' = [kind |-> "agent", priority |-> priority,
                  ticket_type |-> ticket_type,
                  agent |-> find_available_agent(agent_tickets, priority, ticket_type)]
    /\ drain_log' = << >>
    /\ UNCHANGED <<engine, nCreates, repeated, nn, handlers>>

RoutingNext ==
    \/ \E priority \in PRIORITY_LEVELS, ticket_type \in TICKET_TYPES :
         DecideAssignment(priority, ticket_type)
    \/ \E ticket_id \in DynIds, input \in CreateInputs :
         /\ ticket_id <= NextFreshId
         /\ nCreates < MaxRoutingCreates
         /\ CreateTicket(ticket_id, input[1], input[2])
    \/ \E ticket_id \in CloseIds : CloseTicket(ticket_id)

RoutingSpec == RoutingInit /\ [][RoutingNext]_vars

(***************************************************************************)
(* An engine at capacity with queues of several tickets: tickets of two    *)
(* types are created with high priority and queued.                        *)
(***************************************************************************)

\* Bound of the model: the number of successful create_ticket calls.
MaxQueueCreates == 3

QueueIds == (NumPre + 1)..(NumPre + MaxQueueCreates)

QueueInputs == {<<"high", "software">>, <<"high", "hardware">>}

QueueInit == InitEngine([a \in Agents |-> MAX_TICKETS_PER_AGENT], None)

\* create_ticket with the next fresh id or with an id used before.
QueueCreate(ticket_id, priority, ticket_type) ==
    /\ nCreates < MaxQueueCreates
    /\ ticket_id <= NumPre + 1 + Cardinality(QueueIds \cap DOMAIN tickets)
    /\ CreateValid(ticket_id, priority, ticket_type)
    /\ drain_log' = << >>

QueueNext ==
    \/ \E ticket_id \in QueueIds, input \in QueueInputs :
         QueueCreate(ticket_id, input[1], input[2])
    \/ \E ticket_id \in QueueIds \cup PreCloseIds : CloseTicket(ticket_id)

QueueSpec == QueueInit /\ [][QueueNext]_vars

(***************************************************************************)
(* An engine at capacity with tickets of two priorities: high-priority     *)
(* software tickets and medium-priority hardware tickets are created.      *)
(***************************************************************************)

PriorityInputs == {<<"high", "software">>, <<"medium", "hardware">>}

PriorityNext ==
    \/ \E ticket_id \in QueueIds, input \in PriorityInputs :
         QueueCreate(ticket_id, input[1], input[2])
    \/ \E ticket_id \in QueueIds \cup PreCloseIds : CloseTicket(ticket_id)

PrioritySpec == QueueInit /\ [][PriorityNext]_vars

(***************************************************************************)
(* The specialist of software tickets at capacity, and clients that close  *)
(* every pending ticket in the end: high-priority software tickets are     *)
(* created, finitely many of them; the tickets of an agent are closed      *)
(* oldest first and no ticket is left pending for ever.                    *)
(***************************************************************************)

\* Bound of the model: the number of successful create_ticket calls.
MaxLiveCreates == 6

LiveIds == {NumPre + 1, NumPre + 2}

LiveInputs == {<<"high", "software">>}

LiveInit ==
    InitEngine([a \in Agents |-> IF a = TYPE_TO_PRIMARY_AGENT("software")
                                   THEN MAX_TICKETS_PER_AGENT ELSE 0], None)

\* create_ticket with the next fresh id or with an id used before.
LiveCreate(ticket_id, priority, ticket_type) ==
    /\ nCreates < MaxLiveCreates
    /\ ticket_id <= NumPre + 1 + Cardinality(LiveIds \cap DOMAIN tickets)
    /\ CreateValid(ticket_id, priority, ticket_type)
    /\ drain_log' = << >>

\* The ids close_ticket is called with: the created ids and the oldest
\* ticket of each agent's workload.
LiveCloseIds ==
    LiveIds \cup {agent_tickets[a][1] : a \in {b \in Agents : agent_tickets[b] # << >>}}

\* close_ticket of a ticket that is pending.
ClosePending ==
    \E ticket_id \in LiveCloseIds :
        /\ ticket_id \in DOMAIN tickets
        /\ tickets[ticket_id].status = TICKET_STATUS.PENDING
        /\ CloseTicket(ticket_id)

LiveNext ==
    \/ \E ticket_id \in LiveIds, input \in LiveInputs :
         LiveCreate(ticket_id, input[1], input[2])
    \/ \E ticket_id \in LiveCloseIds : CloseTicket(ticket_id)

LiveSpec == LiveInit /\ [][LiveNext]_vars /\ WF_vars(ClosePending)

(***************************************************************************)
(* The server of api.py with its clients.  A client connects and waits;    *)
(* the server accepts a connection and runs the handler of its request.    *)
(* A handler is modelled in two steps, so that the states inside           *)
(* create_ticket and close_ticket exist: create_ticket up to the search    *)
(* for an agent (Handle) and from the assignment on (Finish), close_ticket *)
(* up to the removal from the workload and from _process_queues on.        *)
(***************************************************************************)

\* Mutant: a server that starts a handler thread per connection.
ServerIdle_Threading(h) == TRUE

\* HTTPServer.serve_forever handles one request at a time: it accepts the
\* next connection when no handler is running.
ServerIdle(h) == \A c \in Clients : h[c].pc \in {"none", "waiting"}

Connect(c) ==
    /\ handlers[c].pc = "none"
    /\ handlers' = [handlers EXCEPT ![c].pc = "waiting"]
    /\ UNCHANGED <<engine, result, drain_log, nCreates, repeated, nn>>

\* POST /ticket, create_ticket up to "assigned_agent = self._find_available_agent".
HandleCreate(c, ticket_id, raw_priority, raw_type) ==
    LET priority == Lower(raw_priority)
        ticket_type == Lower(raw_type)
    IN  /\ handlers[c].pc = "waiting"
        /\ ServerIdle(handlers)
        /\ drain_log' = << >>
        /\ UNCHANGED <<agent_tickets, high_priority_queue, medium_priority_queue,
                       low_priority_queue, nn>>
        /\ IF ~ValidInput(priority, ticket_type)
             THEN /\ result' = [kind |-> "ValueError"]
                  /\ handlers' = [handlers EXCEPT ![c] = Idle]
                  /\ UNCHANGED <<tickets, nCreates, repeated>>
             ELSE /\ nCreates < MaxCreates
                  /\ tickets' = Store(tickets, ticket_id,
                                      NewTicket(priority, ticket_type,
                                                nn_prediction_for(nn, priority, ticket_type)))
                  /\ handlers' = [handlers EXCEPT ![c] =
                        [pc |-> "create_assign", ticket_id |-> ticket_id,
                         agent |-> find_available_agent(agent_tickets, priority,
                                                        ticket_type)]]
                  /\ nCreates' = nCreates + 1
                  /\ repeated' = (repeated \/ ticket_id \in DOMAIN tickets)
                  /\ UNCHANGED result

\* create_ticket from "if assigned_agent:" to its return.
FinishCreate(c) ==
    LET ticket_id == handlers[c].ticket_id
        assigned_agent == handlers[c].agent
        queue == get_queue_for_priority(tickets[ticket_id].priority)
    IN  /\ handlers[c].pc = "create_assign"
        /\ IF assigned_agent # None
             THEN /\ tickets' = [tickets EXCEPT ![ticket_id].assigned_agent = assigned_agent,
                                                ![ticket_id].status = TICKET_STATUS.PENDING]
                  /\ agent_tickets' = [agent_tickets EXCEPT
                                         ![assigned_agent] = Append(@, ticket_id)]
                  /\ UNCHANGED <<high_priority_queue, medium_priority_queue,
                                 low_priority_queue>>
             ELSE /\ tickets' = [tickets EXCEPT ![ticket_id].status = TICKET_STATUS.OPEN]
                  /\ high_priority_queue' =
                       IF queue = 1 THEN Append(high_priority_queue, ticket_id)
                       ELSE high_priority_queue
                  /\ medium_priority_queue' =
                       IF queue = 2 THEN Append(medium_priority_queue, ticket_id)
                       ELSE medium_priority_queue
                  /\ low_priority_queue' =
                       IF queue = 3 THEN Append(low_priority_queue, ticket_id)
                       ELSE low_priority_queue
                  /\ UNCHANGED agent_tickets
        /\ result' = [kind |-> "created",
                      ticket_id |-> ticket_id,
                      status |-> tickets'[ticket_id].status,
                      assigned_agent |-> tickets'[ticket_id].assigned_agent,
                      neural_network_prediction |->
                          tickets[ticket_id].neural_network_prediction,
                      queued |-> (tickets'[ticket_id].status = TICKET_STATUS.OPEN)]
        /\ handlers' = [handlers EXCEPT ![c] = Idle]
        /\ UNCHANGED <<drain_log, nCreates, repeated, nn>>

\* POST /ticket/close, close_ticket up to the removal from the agent's list.
HandleClose(c, ticket_id) ==
    /\ handlers[c].pc = "waiting"
    /\ ServerIdle(handlers)
    /\ drain_log' = << >>
    /\ UNCHANGED <<high_priority_queue, medium_priority_queue, low_priority_queue,
                   nCreates, repeated, nn>>
    /\ IF ticket_id \notin DOMAIN tickets
         THEN /\ result' = [kind |-> "NotFound"]
              /\ handlers' = [handlers EXCEPT ![c] = Idle]
              /\ UNCHANGED <<tickets, agent_tickets>>
       ELSE IF tickets[ticket_id].status = TICKET_STATUS.CLOSED
         THEN /\ result' = [kind |-> "already closed", ticket_id |-> ticket_id]
              /\ handlers' = [handlers EXCEPT ![c] = Idle]
              /\ UNCHANGED <<tickets, agent_tickets>>
       ELSE /\ tickets' = MarkClosed(tickets, ticket_id)
            /\ agent_tickets' = Freed(ticket_id)
            /\ handlers' = [handlers EXCEPT ![c] =
                  [pc |-> "close_drain", ticket_id |-> ticket_id,
                   agent |-> tickets[ticket_id].assigned_agent]]
            /\ UNCHANGED result

\* close_ticket from "newly_assigned = self._process_queues()" to its return.
FinishClose(c) ==
    LET d == process_queues(tickets, agent_tickets,
                            <<high_priority_queue, medium_priority_queue,
                              low_priority_queue>>)
    IN  /\ handlers[c].pc = "close_drain"
        /\ tickets' = d.tickets
        /\ agent_tickets' = d.agent_tickets
        /\ high_priority_queue' = d.queues[1]
        /\ medium_priority_queue' = d.queues[2]
        /\ low_priority_queue' = d.queues[3]
        /\ drain_log' = d.log
        /\ result' = [kind |-> "closed",
                      ticket_id |-> handlers[c].ticket_id,
                      status |-> TICKET_STATUS.CLOSED,
                      freed_agent |-> handlers[c].agent,
                      newly_assigned_tickets |-> d.newly_assigned]
        /\ handlers' = [handlers EXCEPT ![c] = Idle]
        /\ UNCHANGED <<nCreates, repeated, nn>>

ServerNext ==
    \/ \E c \in Clients : Connect(c)
    \/ \E c \in Clients, ticket_id \in DynIds, input \in CreateInputs :
         /\ ticket_id <= NextFreshId
         /\ HandleCreate(c, ticket_id, input[1], input[2])
    \/ \E c \in Clients : FinishCreate(c)
    \/ \E c \in Clients, ticket_id \in CloseIds : HandleClose(c, ticket_id)
    \/ \E c \in Clients : FinishClose(c)

ServerSpec == Init /\ [][ServerNext]_vars

(***************************************************************************)

Queues == <<high_priority_queue, medium_priority_queue, low_priority_queue>>

\* The number of positions of seq that hold x.
Occurrences(seq, x) == Cardinality({i \in 1..Len(seq) : seq[i] = x})

InWorkloads(at, id) == \E a \in Agents : Contains(at[a], id)

InQueues(qs, id) == \E q \in 1..3 : Contains(qs[q], id)

\* The entries of the drain log that are visits of queue entries.
Visits(log) == SelectSeq(log, LAMBDA v : v.queue # 0)

\* Some agent holds more tickets than MAX_TICKETS_PER_AGENT.
OverCapacity(at) == \E a \in Agents : Len(at[a]) > MAX_TICKETS_PER_AGENT

(***************************************************************************)
(* C1  Capacity: in every state reached by create_ticket and close_ticket  *)
(* calls, ids repeated or not, and in every state a drain passes through   *)
(* (on entry and after each visit), no agent's workload holds more than    *)
(* MAX_TICKETS_PER_AGENT ids.                                              *)
(***************************************************************************)
C1_Capacity ==
    /\ ~OverCapacity(agent_tickets)
    /\ \A i \in 1..Len(drain_log) : ~OverCapacity(drain_log[i].agent_tickets)

\* A drain, in a run that reused an id, brought an agent back to capacity.
C1_Witness ==
    /\ repeated
    /\ \E i \in 1..Len(drain_log) :
         /\ drain_log[i].agent # None
         /\ Len(drain_log[i].agent_tickets[drain_log[i].agent]) = MAX_TICKETS_PER_AGENT


(***************************************************************************)
(* C2  Membership: as long as create_ticket was called with pairwise       *)
(* distinct ids, after every call each stored ticket that is not closed    *)
(* occurs exactly once in the workloads and queues taken together.         *)
(***************************************************************************)
Places(id) ==
    LET Sum3(f) == f[1] + f[2] + f[3]
    IN  Sum3([i \in 1..3 |-> Occurrences(agent_tickets[AGENT_ORDER[i]], id)])
        + Sum3([q \in 1..3 |-> Occurrences(Queues[q], id)])

C2_Membership ==
    ~repeated =>
        \A id \in DOMAIN tickets :
            tickets[id].status # TICKET_STATUS.CLOSED => Places(id) = 1

\* With distinct ids: a drain has moved a ticket from a queue to a workload
\* while another ticket stays queued.
C2_Witness ==
    /\ ~repeated
    /\ result.kind = "closed" /\ result.newly_assigned_tickets # << >>
    /\ \E id \in DOMAIN tickets :
         tickets[id].status = TICKET_STATUS.OPEN /\ InQueues(Queues, id)

(***************************************************************************)
(* C3  Status monotonicity: with pairwise distinct ids, no call moves a    *)
(* ticket's status backwards in the order open, pending, closed.           *)
(***************************************************************************)
StatusRank(status) ==
    CASE status = TICKET_STATUS.OPEN -> 1
      [] status = TICKET_STATUS.PENDING -> 2
      [] status = TICKET_STATUS.CLOSED -> 3

C3_StatusMonotonic ==
    [][~repeated' =>
         \A id \in DOMAIN tickets :
             StatusRank(tickets'[id].status) >= StatusRank(tickets[id].status)]_vars

(***************************************************************************)
(* C4  A high-priority ticket in a workload is in the workload of the      *)
(* specialist of its type.                                                 *)
(***************************************************************************)
HighOnlyOnSpecialist ==
    \A a \in Agents : \A i \in 1..Len(agent_tickets[a]) :
        LET ticket == tickets[agent_tickets[a][i]]
        IN  ticket.priority = "high" => AGENT_SPECIALIZATIONS[a] = ticket.ticket_type

\* The claim as stated: in every reachable state.
C4_HighOnlyOnSpecialist_AnyIds == HighOnlyOnSpecialist

\* As amended: in every state reached with pairwise distinct ids.
C4_HighOnlyOnSpecialist == ~repeated => HighOnlyOnSpecialist

\* With distinct ids: a high ticket created by a call sits on an agent whose
\* workload a drain appended it to, while a medium or low ticket sits on an
\* agent that is not the specialist of its type.
C4_Witness ==
    /\ ~repeated
    /\ \E i \in 1..Len(drain_log) :
         /\ drain_log[i].agent # None
         /\ tickets[drain_log[i].ticket_id].priority = "high"
         /\ Contains(agent_tickets[drain_log[i].agent], drain_log[i].ticket_id)
    /\ \E a \in Agents : \E i \in 1..Len(agent_tickets[a]) :
         AGENT_SPECIALIZATIONS[a] # tickets[agent_tickets[a][i]].ticket_type

(***************************************************************************)
(* C5  close_ticket on a queued ticket (status open) takes its id out of   *)
(* the queues.                                                             *)
(***************************************************************************)
C5_CloseRemovesFromQueue ==
    [][\A id \in DOMAIN tickets :
         (/\ tickets[id].status = TICKET_STATUS.OPEN
          /\ result'.kind = "closed" /\ result'.ticket_id = id)
         => ~InQueues(Queues', id)]_vars


(***************************************************************************)
(* C6  Drain order: a drain visits the whole high queue, then the whole    *)
(* medium queue, then the whole low queue, each in queue order, and the    *)
(* newly assigned list holds the visits that assigned, in that order.      *)
(***************************************************************************)
TagQueue(q, queue) == [i \in 1..Len(queue) |-> <<q, queue[i]>>]

C6_DrainOrder ==
    [][result'.kind = "closed" =>
         LET visits == Visits(drain_log')
             assigned == SelectSeq(visits, LAMBDA v : v.agent # None)
         IN  /\ [i \in 1..Len(visits) |-> <<visits[i].queue, visits[i].ticket_id>>]
                  = TagQueue(1, high_priority_queue)
                    \o TagQueue(2, medium_priority_queue)
                    \o TagQueue(3, low_priority_queue)
             /\ result'.newly_assigned_tickets
                  = [i \in 1..Len(assigned) |->
                       <<assigned[i].ticket_id, assigned[i].agent>>]]_vars

\* A drain visited a high queue entry without assigning it and then assigned
\* an entry of a lower queue.
C6_Witness ==
    /\ result.kind = "closed"
    /\ \E i, j \in 1..Len(drain_log) :
         /\ i < j
         /\ drain_log[i].queue = 1 /\ drain_log[i].agent = None
         /\ drain_log[j].queue > 1 /\ drain_log[j].agent # None


(***************************************************************************)
(* C7  close_ticket on a pending ticket takes exactly that id, once, out   *)
(* of the workload of its agent before the drain starts, and the whole     *)
(* call leaves the workloads of the other agents as they were.             *)
(***************************************************************************)
\* seq with its k-th element taken out.
Without(seq, k) == SubSeq(seq, 1, k - 1) \o SubSeq(seq, k + 1, Len(seq))

CloseFreesOneSlot ==
    \A id \in DOMAIN tickets :
        (/\ tickets[id].status = TICKET_STATUS.PENDING
         /\ result'.kind = "closed" /\ result'.ticket_id = id)
        => LET a == tickets[id].assigned_agent
               atEntry == drain_log'[1].agent_tickets
           IN  /\ \E k \in 1..Len(agent_tickets[a]) :
                     /\ agent_tickets[a][k] = id
                     /\ atEntry[a] = Without(agent_tickets[a], k)
               /\ result'.freed_agent = a
               /\ \A b \in Agents \ {a} :
                     /\ atEntry[b] = agent_tickets[b]
                     /\ agent_tickets'[b] = agent_tickets[b]

\* The claim as stated: for every call.
C7_CloseFreesOneSlot_AnyIds == [][CloseFreesOneSlot]_vars

\* As amended: for calls made while all ids created are pairwise distinct.
C7_CloseFreesOneSlot == [][~repeated' => CloseFreesOneSlot]_vars

\* With distinct ids: a pending ticket that was not the oldest of its agent
\* has been closed and the drain gave the slot to a queued ticket.
C7_Witness ==
    /\ ~repeated
    /\ result.kind = "closed" /\ result.freed_agent # None
    /\ result.ticket_id \in PreCloseIds
    /\ Len(result.newly_assigned_tickets) = 1
    /\ result.newly_assigned_tickets[1][2] = result.freed_agent

(***************************************************************************)
(* C8  close_ticket twice in succession on the same known id: the second   *)
(* call returns "already closed", changes no ticket, workload or queue     *)
(* and runs no drain.                                                      *)
(***************************************************************************)
SecondCloseDoesNothing ==
    \A id \in CloseIds :
        (/\ result.kind \in {"closed", "already closed"} /\ result.ticket_id = id
         /\ result'.kind \in {"closed", "already closed"} /\ result'.ticket_id = id)
        => /\ result'.kind = "already closed"
           /\ UNCHANGED engine
           /\ drain_log' = << >>

\* The claim as stated: in any reachable state.
C8_SecondCloseDoesNothing_AnyIds == [][SecondCloseDoesNothing]_vars

\* As amended: while all ids created are pairwise distinct.
C8_SecondCloseDoesNothing == [][~repeated' => SecondCloseDoesNothing]_vars

\* With distinct ids: a second close_ticket on a ticket whose first close
\* ran a drain that assigned a queued ticket.
C8_Witness ==
    /\ ~repeated
    /\ result.kind = "already closed"
    /\ \E a \in Agents : \E i \in 1..Len(agent_tickets[a]) :
         agent_tickets[a][i] \in DynIds
    /\ tickets[result.ticket_id].status = TICKET_STATUS.CLOSED


(***************************************************************************)
(* C9  create_ticket with valid input and an id not yet stored: if         *)
(* _find_available_agent returns an agent the id is appended to the end of *)
(* that agent's workload, the ticket is pending and assigned to it;        *)
(* otherwise the id is appended to the tail of the queue of its priority   *)
(* and the ticket is open.  Other workloads, other queues and all other    *)
(* tickets are unchanged, and "queued" is returned true exactly when the   *)
(* ticket is open.                                                         *)
(***************************************************************************)
PriorityTier(priority) ==
    CASE priority = "high" -> 1 [] priority = "medium" -> 2 [] priority = "low" -> 3

C9_CreatePostcondition ==
    [][\A id \in DynIds :
         (/\ result'.kind = "created" /\ result'.ticket_id = id
          /\ id \notin DOMAIN tickets)
         => LET t == tickets'[id]
                agent == find_available_agent(agent_tickets, t.priority, t.ticket_type)
            IN  /\ DOMAIN tickets' = DOMAIN tickets \cup {id}
                /\ \A other \in DOMAIN tickets : tickets'[other] = tickets[other]
                /\ t.priority \in PRIORITY_LEVELS /\ t.ticket_type \in TICKET_TYPES
                /\ IF agent # None
                     THEN /\ agent_tickets' =
                               [agent_tickets EXCEPT ![agent] = Append(@, id)]
                          /\ t.status = TICKET_STATUS.PENDING
                          /\ t.assigned_agent = agent
                          /\ Queues' = Queues
                     ELSE /\ Queues' =
                               [Queues EXCEPT ![PriorityTier(t.priority)] = Append(@, id)]
                          /\ t.status = TICKET_STATUS.OPEN
                          /\ t.assigned_agent = None
                          /\ agent_tickets' = agent_tickets
                /\ result'.status = t.status
                /\ result'.assigned_agent = t.assigned_agent
                /\ result'.queued = (t.status = TICKET_STATUS.OPEN)
      ]_vars

\* A fresh medium-priority ticket has just been put alone on the medium
\* queue while an earlier fresh ticket is pending on an agent.
C9_Witness ==
    /\ ~repeated
    /\ result.kind = "created" /\ result.queued
    /\ tickets[result.ticket_id].priority = "medium"
    /\ medium_priority_queue = <<result.ticket_id>>
    /\ \E id \in DynIds \cap DOMAIN tickets :
         tickets[id].status = TICKET_STATUS.PENDING

(***************************************************************************)
(* C10  create_ticket with a priority outside {low, medium, high} or a     *)
(* type outside {software, hardware, network} raises ValueError and        *)
(* changes no ticket, workload or queue.                                   *)
(***************************************************************************)
\* The claim as stated: the arguments as passed are outside the enumerations.
C10_InvalidInputRejected_AsPassed ==
    [][\A id \in DynIds, input \in CreateInputs :
         (/\ CreateTicket(id, input[1], input[2])
          /\ (input[1] \notin {"low", "medium", "high"}
              \/ input[2] \notin {"software", "hardware", "network"}))
         => (result'.kind = "ValueError" /\ UNCHANGED engine)
      ]_vars

\* As amended: the lower-cased arguments are outside the enumerations.
C10_InvalidInputRejected ==
    [][\A id \in DynIds, input \in CreateInputs :
         (/\ CreateTicket(id, input[1], input[2])
          /\ (Lower(input[1]) \notin {"low", "medium", "high"}
              \/ Lower(input[2]) \notin {"software", "hardware", "network"}))
         => (result'.kind = "ValueError" /\ UNCHANGED engine)
      ]_vars

\* An invalid create_ticket has just been rejected by an engine that holds
\* queued and assigned tickets.
C10_Witness ==
    /\ result.kind = "ValueError"
    /\ high_priority_queue # << >>
    /\ \E a \in Agents : Len(agent_tickets[a]) = MAX_TICKETS_PER_AGENT


(***************************************************************************)
(* C11  close_ticket on an id that is not stored raises the not-found      *)
(* error and changes no ticket, workload or queue and runs no drain.       *)
(***************************************************************************)
C11_UnknownIdRejected ==
    [][\A id \in CloseIds :
         (CloseTicket(id) /\ id \notin DOMAIN tickets)
         => (result'.kind = "NotFound" /\ UNCHANGED engine /\ drain_log' = << >>)
      ]_vars

\* close_ticket has just been refused for an id that is not stored, by an
\* engine that holds a queued ticket.
C11_Witness ==
    /\ result.kind = "NotFound"
    /\ \E q \in 1..3 : Queues[q] # << >>
    /\ DynIds \ DOMAIN tickets # {}

(***************************************************************************)
(* C12  Every close_ticket call that closes a ticket runs _process_queues, *)
(* and newly_assigned_tickets holds exactly the tickets that left a queue  *)
(* for a workload during the call, each with the agent whose workload now  *)
(* holds it.                                                               *)
(***************************************************************************)
\* How often ticket id was taken out of the workload of agent a by the
\* close_ticket call on ticket closed_id.
TakenOut(closed_id, a, id) ==
    IF /\ id = closed_id
       /\ a = tickets[closed_id].assigned_agent
       /\ Contains(agent_tickets[a], id)
      THEN 1 ELSE 0

QueueOccurrences(qs, id) ==
    Occurrences(qs[1], id) + Occurrences(qs[2], id) + Occurrences(qs[3], id)

C12_CloseReportsDrain ==
    [][result'.kind = "closed" =>
         LET closed_id == result'.ticket_id
             reported == result'.newly_assigned_tickets
         IN  /\ drain_log' # << >>
             /\ \A id \in DOMAIN tickets, a \in Agents :
                   Occurrences(reported, <<id, a>>) =
                     Occurrences(agent_tickets'[a], id)
                       - (Occurrences(agent_tickets[a], id) - TakenOut(closed_id, a, id))
             /\ \A id \in DOMAIN tickets :
                   QueueOccurrences(Queues, id) - QueueOccurrences(Queues', id) =
                     Cardinality({i \in 1..Len(reported) : reported[i][1] = id})
             /\ \A i \in 1..Len(reported) :
                   /\ reported[i][1] \in DOMAIN tickets
                   /\ reported[i][2] \in Agents
                   /\ Contains(agent_tickets'[reported[i][2]], reported[i][1])
      ]_vars

\* A close_ticket call has closed a ticket and its drain moved a ticket
\* from a queue to an agent other than the one that was freed.
C12_Witness ==
    /\ result.kind = "closed"
    /\ Len(result.newly_assigned_tickets) >= 1
    /\ result.newly_assigned_tickets[1][2] # result.freed_agent
    /\ Len(drain_log) >= 2


(***************************************************************************)
(* C15  Whenever a (medium, hardware) ticket T6 is the only queued ticket  *)
(* and the hardware specialist is at capacity, close_ticket on one of the  *)
(* hardware specialist's assigned tickets assigns T6 to the hardware       *)
(* specialist in that same call: T6 is pending, out of the medium queue,   *)
(* and (T6, hardware specialist) is what newly_assigned_tickets reports.   *)
(***************************************************************************)
HardwareSpecialist == CHOOSE a \in Agents : AGENT_SPECIALIZATIONS[a] = "hardware"

\* t6 is a (medium, hardware) ticket and the only entry of the three queues.
OnlyQueued(t6) ==
    /\ tickets[t6].priority = "medium" /\ tickets[t6].ticket_type = "hardware"
    /\ Len(high_priority_queue) + Len(medium_priority_queue)
         + Len(low_priority_queue) = 1
    /\ InQueues(Queues, t6)

CloseHardwareAssignsQueued ==
    \A t6 \in DOMAIN tickets, id \in CloseIds :
        (/\ OnlyQueued(t6)
         /\ Len(agent_tickets[HardwareSpecialist]) = MAX_TICKETS_PER_AGENT
         /\ Contains(agent_tickets[HardwareSpecialist], id)
         /\ CloseTicket(id))
        => /\ tickets'[t6].status = TICKET_STATUS.PENDING
           /\ tickets'[t6].assigned_agent = HardwareSpecialist
           /\ Contains(agent_tickets'[HardwareSpecialist], t6)
           /\ ~Contains(medium_priority_queue', t6)
           /\ result'.kind = "closed"
           /\ result'.newly_assigned_tickets = << <<t6, HardwareSpecialist>> >>

\* The claim as stated: whenever the situation arises.
C15_CloseHardwareAssignsQueued_AnyIds == [][CloseHardwareAssignsQueued]_vars

\* As amended: while all ids created are pairwise distinct.
C15_CloseHardwareAssignsQueued == [][~repeated' => CloseHardwareAssignsQueued]_vars

\* With distinct ids: a close_ticket on a ticket of the hardware specialist
\* has just moved a (medium, hardware) ticket from the medium queue, where
\* it was the only queued ticket, to the hardware specialist.
C15_Witness ==
    /\ ~repeated
    /\ result.kind = "closed" /\ result.freed_agent = HardwareSpecialist
    /\ Len(result.newly_assigned_tickets) = 1
    /\ LET t6 == result.newly_assigned_tickets[1][1]
       IN  /\ tickets[t6].priority = "medium" /\ tickets[t6].ticket_type = "hardware"
           /\ drain_log[2].queue = 2
           /\ agent_tickets[HardwareSpecialist][MAX_TICKETS_PER_AGENT] = t6
    /\ Len(drain_log) = 2

(***************************************************************************)
(* C18  In every reachable state a ticket has an assigned agent exactly    *)
(* when its status is pending: an open ticket has none and a closed ticket *)
(* no longer carries one.                                                  *)
(***************************************************************************)
C18_AssignedIffPending ==
    \A id \in DOMAIN tickets :
        (tickets[id].assigned_agent # None) <=>
            (tickets[id].status = TICKET_STATUS.PENDING)


(***************************************************************************)
(* Scenarios on a fresh engine (ScenarioSpec).  The store tells the calls  *)
(* made so far: T1, T2, ... were created in this order, and a close_ticket *)
(* call that closed a ticket leaves it closed.                             *)
(***************************************************************************)
\* So far exactly n tickets were created, all of them (priority, ticket_type),
\* and none was closed.
OnlyCreated(n, priority, ticket_type) ==
    /\ DOMAIN tickets = 1..n
    /\ \A id \in 1..n :
         /\ tickets[id].priority = priority
         /\ tickets[id].ticket_type = ticket_type
         /\ tickets[id].status # TICKET_STATUS.CLOSED

SoftwareSpecialist == CHOOSE a \in Agents : AGENT_SPECIALIZATIONS[a] = "software"

\* Tickets 1..n are pending on agent a, in this order, and on no other agent.
AllAssignedTo(n, a) ==
    /\ agent_tickets[a] = [i \in 1..n |-> i]
    /\ \A b \in Agents \ {a} : ~\E i \in 1..Len(agent_tickets[b]) : agent_tickets[b][i] <= n
    /\ \A id \in 1..n :
         /\ tickets[id].status = TICKET_STATUS.PENDING
         /\ tickets[id].assigned_agent = a

(***************************************************************************)
(* C13  On an engine constructed empty, five (high, software) tickets      *)
(* T1..T5 are all assigned to the software specialist; a sixth (high,      *)
(* software) ticket T6 is queued on the high queue with status open and    *)
(* no workload changes, the other two agents being idle.                   *)
(***************************************************************************)
C13_SixthHighSoftwareQueued ==
    \A n \in ScenarioIds :
        OnlyCreated(n, "high", "software") =>
            IF n <= MAX_TICKETS_PER_AGENT
              THEN /\ AllAssignedTo(n, SoftwareSpecialist)
                   /\ Queues = << << >>, << >>, << >> >>
              ELSE /\ AllAssignedTo(MAX_TICKETS_PER_AGENT, SoftwareSpecialist)
                   /\ \A b \in Agents \ {SoftwareSpecialist} : agent_tickets[b] = << >>
                   /\ Queues = << <<n>>, << >>, << >> >>
                   /\ tickets[n].status = TICKET_STATUS.OPEN
                   /\ tickets[n].assigned_agent = None

\* T6 has just been created after T1..T5, all (high, software), none closed.
C13_Witness ==
    /\ OnlyCreated(MaxScenarioCreates, "high", "software")
    /\ result.kind = "created" /\ result.ticket_id = MaxScenarioCreates
    /\ result.queued

(***************************************************************************)
(* C14  On an engine constructed empty, five (medium, hardware) tickets    *)
(* are all assigned to the hardware specialist, and a sixth (medium,       *)
(* hardware) ticket T6 is queued: status open, on the medium queue.        *)
(***************************************************************************)
FirstFiveOnHardwareSpecialist(n) ==
    AllAssignedTo(IF n <= MAX_TICKETS_PER_AGENT THEN n ELSE MAX_TICKETS_PER_AGENT,
                  HardwareSpecialist)

\* The claim as stated.
C14_SixthMediumHardwareQueued ==
    \A n \in ScenarioIds :
        OnlyCreated(n, "medium", "hardware") =>
            /\ FirstFiveOnHardwareSpecialist(n)
            /\ n > MAX_TICKETS_PER_AGENT =>
                 /\ tickets[n].status = TICKET_STATUS.OPEN
                 /\ Queues = << << >>, <<n>>, << >> >>

\* As amended: T6 goes to the first available agent of the fallback list of
\* (medium, hardware), which is the network specialist, and nothing is queued.
C14_SixthMediumHardwareFallback ==
    \A n \in ScenarioIds :
        OnlyCreated(n, "medium", "hardware") =>
            /\ FirstFiveOnHardwareSpecialist(n)
            /\ Queues = << << >>, << >>, << >> >>
            /\ n > MAX_TICKETS_PER_AGENT =>
                 /\ tickets[n].status = TICKET_STATUS.PENDING
                 /\ tickets[n].assigned_agent = "Agent 3"
                 /\ AGENT_SPECIALIZATIONS["Agent 3"] = "network"
                 /\ agent_tickets["Agent 3"] = <<n>>
                 /\ agent_tickets[SoftwareSpecialist] = << >>

\* T6 has just been created after T1..T5, all (medium, hardware), none closed.
C14_Witness ==
    /\ OnlyCreated(MaxScenarioCreates, "medium", "hardware")
    /\ result.kind = "created" /\ result.ticket_id = MaxScenarioCreates


(***************************************************************************)
(* C16  create_ticket and close_ticket (with its drain) run as indivisible *)
(* transactions when several clients call concurrently: while the handler  *)
(* of one request is inside a call no other handler runs, so the agent a   *)
(* create_ticket found free is still free when it appends, and the         *)
(* capacity and membership invariants hold in every interleaving.          *)
(***************************************************************************)
\* The clients whose handler is inside create_ticket or close_ticket.
Running == {c \in Clients : handlers[c].pc \in {"create_assign", "close_drain"}}

C16_IndivisibleCalls ==
    /\ Cardinality(Running) <= 1
    /\ \A c \in Clients :
         (handlers[c].pc = "create_assign" /\ handlers[c].agent # None)
         => Len(agent_tickets[handlers[c].agent]) < 5
    /\ \A a \in Agents : Len(agent_tickets[a]) <= 5
    /\ (Running = {} /\ ~repeated) =>
         \A id \in DOMAIN tickets :
             tickets[id].status # TICKET_STATUS.CLOSED => Places(id) = 1

\* Two clients have sent requests: the handler of one is inside create_ticket
\* and has found the last free slot of an agent, the other client waits.
C16_Witness ==
    \E c, other \in Clients :
        /\ handlers[c].pc = "create_assign"
        /\ handlers[c].agent # None
        /\ Len(agent_tickets[handlers[c].agent]) = MAX_TICKETS_PER_AGENT - 1
        /\ handlers[other].pc = "waiting"

(***************************************************************************)
(* C17  The classifier never influences routing.  Every create_ticket and  *)
(* close_ticket step of an engine with any model leads to the statuses,    *)
(* assigned agents, workloads and queues that the same call gives on the   *)
(* engine without a model (the same state with every advisory field        *)
(* empty), so that runs of the same calls with different classifiers stay  *)
(* equal in these; and without a model a valid create_ticket succeeds      *)
(* with an empty prediction.                                               *)
(***************************************************************************)
\* What routing is about: statuses, assigned agents, workloads and queues.
RoutingView(tk, at, qs) ==
    [status |-> [id \in DOMAIN tk |-> tk[id].status],
     assigned_agent |-> [id \in DOMAIN tk |-> tk[id].assigned_agent],
     agent_tickets |-> at,
     queues |-> qs]

\* The store of the engine without a model: no ticket carries a prediction.
NoAdvisory(tk) == [id \in DOMAIN tk |-> [tk[id] EXCEPT !.neural_network_prediction = None]]

\* The routing view after create_ticket without a model.
CreateWithoutModel(ticket_id, priority, ticket_type) ==
    LET c == create_ticket(NoAdvisory(tickets), agent_tickets, Queues,
                           ticket_id, priority, ticket_type, None)
    IN  RoutingView(c.tickets, c.agent_tickets, c.queues)

\* The routing view and the report after a closing close_ticket without a model.
CloseWithoutModel(ticket_id) ==
    LET tk == NoAdvisory(tickets)
        d == process_queues(MarkClosed(tk, ticket_id),
                            RemoveFromAgent(agent_tickets, tk[ticket_id].assigned_agent,
                                            ticket_id),
                            Queues)
    IN  [view |-> RoutingView(d.tickets, d.agent_tickets, d.queues),
         newly_assigned_tickets |-> d.newly_assigned]

C17_ClassifierNeverRoutes ==
    [][/\ result'.kind = "created" =>
            LET id == result'.ticket_id
            IN  RoutingView(tickets', agent_tickets', Queues') =
                  CreateWithoutModel(id, tickets'[id].priority, tickets'[id].ticket_type)
       /\ result'.kind = "closed" =>
            LET w == CloseWithoutModel(result'.ticket_id)
            IN  /\ RoutingView(tickets', agent_tickets', Queues') = w.view
                /\ result'.newly_assigned_tickets = w.newly_assigned_tickets
       /\ \A id \in DynIds, input \in CreateInputs :
            (/\ CreateTicket(id, input[1], input[2])
             /\ Lower(input[1]) \in {"low", "medium", "high"}
             /\ Lower(input[2]) \in {"software", "hardware", "network"})
            => /\ result'.kind = "created"
               /\ ~model_loaded(nn) => result'.neural_network_prediction = None
      ]_vars

\* A model is loaded, its prediction for the ticket just created is an agent
\* with a free slot, and the ticket went elsewhere.
C17_Witness ==
    /\ model_loaded(nn)
    /\ result.kind = "created"
    /\ result.neural_network_prediction \in Agents
    /\ result.neural_network_prediction # result.assigned_agent
    /\ \/ result.queued
       \/ Len(agent_tickets[result.neural_network_prediction]) < MAX_TICKETS_PER_AGENT

(***************************************************************************)
(* C19  classify_ticket raises the model-not-loaded error when no model is *)
(* loaded, and whether it returns or raises it stores no ticket and        *)
(* changes no ticket, workload or queue.                                   *)
(***************************************************************************)
C19_ClassifyOnly ==
    [][\A input \in CreateInputs :
         ClassifyTicket(input[1], input[2])
         => /\ UNCHANGED engine
            /\ ~model_loaded(nn) => result'.kind = "RuntimeError"
            /\ result'.kind \in {"RuntimeError", "KeyError", "classified"}
      ]_vars

\* classify_ticket has just failed because no model is loaded, on an engine
\* that holds a queued ticket.
C19_Witness ==
    /\ result.kind = "RuntimeError"
    /\ ~model_loaded(nn)
    /\ Queues # << << >>, << >>, << >> >>

(***************************************************************************)
(* C20  get_status changes no ticket, workload or queue, and its report    *)
(* agrees with the state: per agent the load is the length of the          *)
(* workload and "available" is load < capacity, the three queue listings   *)
(* are the queues in order, total_tickets is the number of stored tickets  *)
(* and pending_in_queue the sum of the three queue lengths.                *)
(***************************************************************************)
C20_StatusSnapshot ==
    [][result'.kind = "status" =>
         /\ UNCHANGED engine
         /\ \A a \in Agents :
              LET w == result'.agent_workloads[a]
              IN  /\ w.current_tickets = Len(agent_tickets[a])
                  /\ w.available = (w.current_tickets < 5)
                  /\ w.max_capacity = 5
                  /\ w.ticket_ids = agent_tickets[a]
         /\ result'.queues.high_priority = high_priority_queue
         /\ result'.queues.medium_priority = medium_priority_queue
         /\ result'.queues.low_priority = low_priority_queue
         /\ result'.total_tickets = Cardinality(DOMAIN tickets)
         /\ result'.pending_in_queue =
              Len(high_priority_queue) + Len(medium_priority_queue)
                + Len(low_priority_queue)
      ]_vars

\* get_status has just reported an engine with a ticket on the low queue, an
\* agent at capacity and an agent with a free slot.
C20_Witness ==
    /\ result.kind = "status"
    /\ low_priority_queue # << >>
    /\ result.pending_in_queue >= 1
    /\ \E a, b \in Agents : /\ result.agent_workloads[a].available
                            /\ ~result.agent_workloads[b].available

(***************************************************************************)
(* C21  Tickets are never deleted: with pairwise distinct ids, every call  *)
(* of create_ticket and close_ticket keeps every stored id in the store    *)
(* (closed tickets included) and leaves the priority and the type of every *)
(* stored ticket as they were.                                             *)
(***************************************************************************)
C21_NeverDeleted ==
    [][~repeated' =>
         \A id \in DOMAIN tickets :
             /\ id \in DOMAIN tickets'
             /\ tickets'[id].priority = tickets[id].priority
             /\ tickets'[id].ticket_type = tickets[id].ticket_type]_vars

\* With distinct ids: a ticket was closed, a ticket created after it is
\* stored, and the closed one is still there.
C21_Witness ==
    /\ ~repeated
    /\ result.kind = "created"
    /\ \E id \in DOMAIN tickets :
         /\ id # result.ticket_id
         /\ tickets[id].status = TICKET_STATUS.CLOSED
    /\ Cardinality(DOMAIN tickets) = NumPre + 2

(***************************************************************************)
(* C22  create_ticket with valid input and an id that is already stored    *)
(* raises no error: the stored entry is replaced by a fresh ticket, which  *)
(* is routed like a new one (appended to the workload of the agent         *)
(* _find_available_agent returns, or to the queue of its priority); the    *)
(* other tickets, workloads and queues stay as they were.                  *)
(***************************************************************************)
C22_DuplicateIdOverwrites ==
    [][\A id \in DynIds, input \in CreateInputs :
         (/\ ValidInput(Lower(input[1]), Lower(input[2]))
          /\ id \in DOMAIN tickets
          /\ CreateTicket(id, input[1], input[2]))
         => LET priority == Lower(input[1])
                ticket_type == Lower(input[2])
                agent == find_available_agent(agent_tickets, priority, ticket_type)
                fresh == NewTicket(priority, ticket_type,
                                   nn_prediction_for(nn, priority, ticket_type))
            IN  /\ result'.kind = "created" /\ result'.ticket_id = id
                /\ DOMAIN tickets' = DOMAIN tickets
                /\ \A other \in DOMAIN tickets \ {id} : tickets'[other] = tickets[other]
                /\ IF agent # None
                     THEN /\ tickets'[id] =
                               [fresh EXCEPT !.assigned_agent = agent,
                                             !.status = TICKET_STATUS.PENDING]
                          /\ agent_tickets' =
                               [agent_tickets EXCEPT ![agent] = Append(@, id)]
                          /\ Queues' = Queues
                     ELSE /\ tickets'[id] = fresh
                          /\ Queues' =
                               [Queues EXCEPT ![PriorityTier(priority)] = Append(@, id)]
                          /\ agent_tickets' = agent_tickets
      ]_vars

\* create_ticket has just replaced a ticket that is in a workload by a
\* ticket that it queued.
C22_Witness ==
    /\ repeated
    /\ result.kind = "created" /\ result.queued
    /\ tickets[result.ticket_id].status = TICKET_STATUS.OPEN
    /\ InWorkloads(agent_tickets, result.ticket_id)

(***************************************************************************)
(* Definitions shared by the properties of _find_available_agent           *)
(***************************************************************************)

\* The agent whose specialization is the ticket type.
SpecialistOf(ticket_type) == CHOOSE a \in Agents : AGENT_SPECIALIZATIONS[a] = ticket_type

\* Agent a holds fewer tickets than the capacity.
SpareCapacity(at, a) == Len(at[a]) < MAX_TICKETS_PER_AGENT

\* Workloads as long as those of at, without the ids.
LoadsOnly(at) == [a \in Agents |-> [i \in 1..Len(at[a]) |-> 0]]

(***************************************************************************)
(* C23  _find_available_agent returns the specialist of the ticket type    *)
(* whenever that specialist has spare capacity, for every priority and     *)
(* whatever the other agents hold; and whenever create_ticket or a visit   *)
(* of a drain puts a ticket on an agent that is not the specialist of its  *)
(* type, the specialist is at capacity at that moment.                     *)
(***************************************************************************)
C23_SpecialistFirst ==
    [][/\ result'.kind = "agent" =>
            (SpareCapacity(agent_tickets, SpecialistOf(result'.ticket_type))
             => result'.agent = SpecialistOf(result'.ticket_type))
       /\ result'.kind = "created" =>
            LET t == tickets'[result'.ticket_id]
            IN  /\ SpareCapacity(agent_tickets, SpecialistOf(t.ticket_type))
                   => t.assigned_agent = SpecialistOf(t.ticket_type)
                /\ t.assigned_agent \notin {None, SpecialistOf(t.ticket_type)}
                   => ~SpareCapacity(agent_tickets, SpecialistOf(t.ticket_type))
       /\ result'.kind = "closed" =>
            \A i \in 2..Len(drain_log') :
                LET v == drain_log'[i]
                    before == drain_log'[i - 1].agent_tickets
                    specialist == SpecialistOf(tickets'[v.ticket_id].ticket_type)
                IN  /\ SpareCapacity(before, specialist) => v.agent = specialist
                    /\ v.agent \notin {None, specialist}
                       => ~SpareCapacity(before, specialist)
      ]_vars

\* _find_available_agent has just returned the specialist of a low-priority
\* ticket while that specialist holds more tickets than each other agent.
C23_Witness ==
    /\ result.kind = "agent" /\ result.priority = "low"
    /\ result.agent = SpecialistOf(result.ticket_type)
    /\ \A a \in Agents \ {result.agent} :
         Len(agent_tickets[a]) < Len(agent_tickets[result.agent])

(***************************************************************************)
(* C24  For a medium or low ticket whose specialist is at capacity,        *)
(* _find_available_agent returns the first agent with spare capacity of    *)
(* the list SECONDARY_ASSIGNMENTS holds for (priority, type), whatever the *)
(* loads of the agents after it in the list or outside the list.           *)
(***************************************************************************)
C24_FallbackOrder ==
    [][(/\ result'.kind = "agent"
        /\ result'.priority \in {"medium", "low"}
        /\ ~SpareCapacity(agent_tickets, SpecialistOf(result'.ticket_type)))
       => LET fallback == SECONDARY_ASSIGNMENTS(result'.priority, result'.ticket_type)
          IN  \A k \in 1..Len(fallback) :
                  (/\ SpareCapacity(agent_tickets, fallback[k])
                   /\ \A j \in 1..(k - 1) : ~SpareCapacity(agent_tickets, fallback[j]))
                  => result'.agent = fallback[k]
      ]_vars

\* _find_available_agent has just returned an agent of the fallback list
\* while an agent outside the list holds fewer tickets than the one returned.
C24_Witness ==
    /\ result.kind = "agent" /\ result.priority \in {"medium", "low"}
    /\ ~SpareCapacity(agent_tickets, SpecialistOf(result.ticket_type))
    /\ LET fallback == SECONDARY_ASSIGNMENTS(result.priority, result.ticket_type)
       IN  /\ \E k \in 1..Len(fallback) : fallback[k] = result.agent
           /\ \E a \in Agents :
                /\ \A k \in 1..Len(fallback) : fallback[k] # a
                /\ Len(agent_tickets[a]) < Len(agent_tickets[result.agent])

(***************************************************************************)
(* C25  For a medium or low ticket whose specialist and whose fallback     *)
(* agents are all at capacity, _find_available_agent returns the first     *)
(* agent with spare capacity in the order Agent 1, Agent 2, Agent 3; and   *)
(* the agent returned depends on the priority, the type and the number of  *)
(* tickets each agent holds, on nothing else.                              *)
(***************************************************************************)
C25_RegistryOrder ==
    [][result'.kind = "agent" =>
         LET fallback == SECONDARY_ASSIGNMENTS(result'.priority, result'.ticket_type)
         IN  /\ (/\ result'.priority \in {"medium", "low"}
                 /\ ~SpareCapacity(agent_tickets, SpecialistOf(result'.ticket_type))
                 /\ \A k \in 1..Len(fallback) : ~SpareCapacity(agent_tickets, fallback[k]))
                => \A i \in 1..Len(AGENT_ORDER) :
                       (/\ SpareCapacity(agent_tickets, AGENT_ORDER[i])
                        /\ \A j \in 1..(i - 1) : ~SpareCapacity(agent_tickets, AGENT_ORDER[j]))
                       => result'.agent = AGENT_ORDER[i]
             /\ result'.agent = find_available_agent(LoadsOnly(agent_tickets),
                                                     result'.priority, result'.ticket_type)
      ]_vars

\* _find_available_agent has just returned an agent that is neither the
\* specialist nor in the fallback list, in an engine that holds a queued
\* ticket.
C25_Witness ==
    /\ result.kind = "agent" /\ result.priority \in {"medium", "low"}
    /\ result.agent \in Agents \ {SpecialistOf(result.ticket_type)}
    /\ LET fallback == SECONDARY_ASSIGNMENTS(result.priority, result.ticket_type)
       IN  \A k \in 1..Len(fallback) : fallback[k] # result.agent
    /\ high_priority_queue # << >>

(***************************************************************************)
(* C26  create_ticket with valid input never fails for lack of capacity:   *)
(* it returns a created ticket, which is queued exactly when, at the time  *)
(* of the call, the specialist of its type is at capacity (high priority)  *)
(* or every agent is at capacity (medium and low priority).                *)
(***************************************************************************)
C26_QueuedOnlyWhenFull ==
    [][\A id \in DynIds, input \in CreateInputs :
         (/\ ValidInput(Lower(input[1]), Lower(input[2]))
          /\ CreateTicket(id, input[1], input[2]))
         => LET priority == Lower(input[1])
                ticket_type == Lower(input[2])
                mustQueue ==
                    IF priority = "high"
                      THEN ~SpareCapacity(agent_tickets, SpecialistOf(ticket_type))
                      ELSE \A a \in Agents : ~SpareCapacity(agent_tickets, a)
            IN  /\ result'.kind = "created" /\ result'.ticket_id = id
                /\ result'.queued = mustQueue
                /\ (tickets'[id].status = TICKET_STATUS.OPEN) = mustQueue
                /\ (Queues' # Queues) = mustQueue
                /\ (agent_tickets' = agent_tickets) = mustQueue
      ]_vars

\* A high-priority ticket has just been queued while another agent has a
\* free slot, and a medium-priority ticket is pending on an agent that is
\* not the specialist of its type.
C26_Witness ==
    /\ result.kind = "created" /\ result.queued
    /\ tickets[result.ticket_id].priority = "high"
    /\ \E a \in Agents : SpareCapacity(agent_tickets, a)
    /\ \E id \in DynIds \cap DOMAIN tickets :
         /\ tickets[id].priority = "medium"
         /\ tickets[id].status = TICKET_STATUS.PENDING
         /\ tickets[id].assigned_agent # SpecialistOf(tickets[id].ticket_type)

(***************************************************************************)
(* C27  No head-of-line blocking: a drain visits every entry of the three  *)
(* queues; each entry is given the agent _find_available_agent returns on  *)
(* the workloads of its turn, whatever happened to the entries before it;  *)
(* an entry that finds no agent stays in its queue and an entry that finds *)
(* one leaves it.                                                          *)
(***************************************************************************)
C27_NoHeadOfLineBlocking ==
    [][result'.kind = "closed" =>
         LET log == drain_log'
             entries == TagQueue(1, high_priority_queue)
                        \o TagQueue(2, medium_priority_queue)
                        \o TagQueue(3, low_priority_queue)
         IN  /\ Len(log) = 1 + Len(entries)
             /\ \A i \in 1..Len(entries) :
                    LET v == log[i + 1]
                        ticket == tickets'[entries[i][2]]
                    IN  /\ <<v.queue, v.ticket_id>> = entries[i]
                        /\ v.agent = find_available_agent(log[i].agent_tickets,
                                                          ticket.priority,
                                                          ticket.ticket_type)
             /\ \A q \in 1..3 : \A id \in DOMAIN tickets :
                    Occurrences(Queues'[q], id)
                      = Cardinality({i \in 1..Len(entries) :
                                       /\ entries[i] = <<q, id>>
                                       /\ log[i + 1].agent = None})
      ]_vars

\* The high queue held a hardware ticket, then a software ticket: the drain
\* has given the slot freed on the software specialist to the software
\* ticket, and the hardware ticket is still queued.
C27_Witness ==
    /\ result.kind = "closed" /\ result.freed_agent = SoftwareSpecialist
    /\ Len(drain_log) = 3
    /\ drain_log[2].queue = 1 /\ drain_log[2].agent = None
    /\ tickets[drain_log[2].ticket_id].ticket_type = "hardware"
    /\ drain_log[3].queue = 1 /\ drain_log[3].agent = SoftwareSpecialist
    /\ tickets[drain_log[3].ticket_id].ticket_type = "software"
    /\ high_priority_queue = <<drain_log[2].ticket_id>>
    /\ result.newly_assigned_tickets = <<<<drain_log[3].ticket_id, SoftwareSpecialist>>>>

(***************************************************************************)
(* C28  Each queue is in insertion order: create_ticket only appends at    *)
(* the tail of one queue, close_ticket with its drain leaves every queue a *)
(* subsequence of what it was, and no call changes a queue otherwise; so,  *)
(* ids being given out in increasing order, with pairwise distinct ids the *)
(* ids of each queue increase from the head to the tail.                   *)
(***************************************************************************)
\* sub is seq with some of its entries taken out.
RECURSIVE IsSubsequence(_, _)
IsSubsequence(sub, seq) ==
    IF sub = << >> THEN TRUE
    ELSE IF seq = << >> THEN FALSE
    ELSE IF Head(sub) = Head(seq) THEN IsSubsequence(Tail(sub), Tail(seq))
    ELSE IsSubsequence(sub, Tail(seq))

\* The ids of seq increase from the head to the tail.
Increasing(seq) == \A i, j \in 1..Len(seq) : i < j => seq[i] < seq[j]

C28_InsertionOrder ==
    [][/\ result'.kind = "created" =>
            \E q \in 1..3 :
                /\ Queues'[q] \in {Queues[q], Append(Queues[q], result'.ticket_id)}
                /\ \A r \in (1..3) \ {q} : Queues'[r] = Queues[r]
       /\ result'.kind = "closed" =>
            \A q \in 1..3 : IsSubsequence(Queues'[q], Queues[q])
       /\ result'.kind \notin {"created", "closed"} => Queues' = Queues
       /\ ~repeated' => \A q \in 1..3 : Increasing(Queues'[q])
      ]_vars

\* With distinct ids: a drain has taken the middle one of the three tickets
\* of a queue and left the other two.
C28_Witness ==
    /\ ~repeated
    /\ result.kind = "closed"
    /\ \E q \in 1..3 :
         /\ Len(Queues[q]) = 2
         /\ \E i \in 2..Len(drain_log) :
              /\ drain_log[i].queue = q /\ drain_log[i].agent # None
              /\ Queues[q][1] < drain_log[i].ticket_id
              /\ drain_log[i].ticket_id < Queues[q][2]

(***************************************************************************)
(* C29  One run of _process_queues evaluates each ticket that is queued    *)
(* when it starts exactly once, a ticket that is not queued never, and     *)
(* then stops: the drain makes as many visits as the queues have entries,  *)
(* assigns a ticket at most once and reports it at most once.              *)
(***************************************************************************)
EachQueuedTicketOnce ==
    result'.kind = "closed" =>
        LET log == drain_log'
            newly == result'.newly_assigned_tickets
        IN  /\ Len(log) = 1 + Len(high_priority_queue) + Len(medium_priority_queue)
                            + Len(low_priority_queue)
            /\ \A id \in DOMAIN tickets :
                   /\ Cardinality({i \in 2..Len(log) : log[i].ticket_id = id})
                        = IF InQueues(Queues, id) THEN 1 ELSE 0
                   /\ Cardinality({i \in 2..Len(log) :
                                     log[i].ticket_id = id /\ log[i].agent # None}) <= 1
                   /\ Cardinality({i \in 1..Len(newly) : newly[i][1] = id}) <= 1

\* The claim as stated: for every drain.
C29_EachQueuedTicketOnce_AnyIds == [][EachQueuedTicketOnce]_vars

\* As amended: for the drains run while all ids created are pairwise distinct.
C29_EachQueuedTicketOnce == [][~repeated' => EachQueuedTicketOnce]_vars

\* With distinct ids: a drain has visited a ticket of one queue and a ticket
\* of another queue, assigned one of them and left the other queued.
C29_Witness ==
    /\ ~repeated
    /\ result.kind = "closed"
    /\ Len(drain_log) = 3
    /\ drain_log[2].queue # drain_log[3].queue
    /\ Len(result.newly_assigned_tickets) = 1
    /\ \E q \in 1..3 : Len(Queues[q]) = 1

(***************************************************************************)
(* C30  _find_available_agent is pure: a call, for any priority and type   *)
(* in any state, changes no ticket, no workload and no queue, and a call   *)
(* that follows a call with the same arguments in the same state returns   *)
(* the same agent, or None again.                                          *)
(***************************************************************************)
C30_DecideIsPure ==
    [][\A priority \in PRIORITY_LEVELS, ticket_type \in TICKET_TYPES :
         DecideAssignment(priority, ticket_type)
         => /\ UNCHANGED engine
            /\ (/\ result.kind = "agent"
                /\ result.priority = priority
                /\ result.ticket_type = ticket_type)
               => result'.agent = result.agent
      ]_vars

\* _find_available_agent has just returned an agent for a medium-priority
\* ticket in an engine that holds a queued ticket and a closed ticket.
C30_Witness ==
    /\ result.kind = "agent" /\ result.priority = "medium"
    /\ result.agent \in Agents
    /\ high_priority_queue # << >>
    /\ \E id \in DOMAIN tickets : tickets[id].status = TICKET_STATUS.CLOSED

(***************************************************************************)
(* C31  Work conservation: with pairwise distinct ids, after every call of *)
(* create_ticket and close_ticket no queue entry could be assigned: when   *)
(* some agent has spare capacity the medium and low queues are empty, and  *)
(* when the specialist of a type has spare capacity the high queue holds   *)
(* no ticket of that type.                                                 *)
(***************************************************************************)
WorkConserving ==
    /\ (\E a \in Agents : SpareCapacity(agent_tickets, a))
       => (medium_priority_queue = << >> /\ low_priority_queue = << >>)
    /\ \A ticket_type \in TICKET_TYPES :
           SpareCapacity(agent_tickets, SpecialistOf(ticket_type))
           => \A i \in 1..Len(high_priority_queue) :
                  tickets[high_priority_queue[i]].ticket_type # ticket_type
    /\ \A q \in 1..3 : \A i \in 1..Len(Queues[q]) :
           find_available_agent(agent_tickets, tickets[Queues[q][i]].priority,
                                tickets[Queues[q][i]].ticket_type) = None

C31_WorkConserving == ~repeated => WorkConserving

\* With distinct ids: a close_ticket call has freed a slot on an agent that
\* is not the specialist of the high-priority ticket that waits, and the
\* slot is still free.
C31_Witness ==
    /\ ~repeated
    /\ result.kind = "closed" /\ result.freed_agent # None
    /\ result.newly_assigned_tickets = << >>
    /\ SpareCapacity(agent_tickets, result.freed_agent)
    /\ high_priority_queue # << >>

(***************************************************************************)
(* C32  With pairwise distinct ids, the drain of one close_ticket call     *)
(* assigns at most one ticket, and assigns it to the agent whose slot the  *)
(* call has freed; close_ticket on a ticket that is only queued frees no   *)
(* slot and its drain assigns nothing.                                     *)
(***************************************************************************)
CloseAssignsAtMostOne ==
    result'.kind = "closed" =>
        LET newly == result'.newly_assigned_tickets
            closed == tickets[result'.ticket_id]
        IN  /\ Len(newly) <= 1
            /\ Len(newly) = 1 =>
                 /\ result'.freed_agent # None
                 /\ newly[1][2] = result'.freed_agent
                 /\ closed.status = TICKET_STATUS.PENDING
            /\ closed.status = TICKET_STATUS.OPEN =>
                 /\ drain_log'[1].agent_tickets = agent_tickets
                 /\ agent_tickets' = agent_tickets
                 /\ newly = << >>

C32_CloseAssignsAtMostOne == [][~repeated' => CloseAssignsAtMostOne]_vars

\* With distinct ids: close_ticket on a ticket that was only queued has
\* assigned nothing, while another ticket waits in a queue and an agent has
\* a free slot.
C32_Witness ==
    /\ ~repeated
    /\ result.kind = "closed" /\ result.freed_agent = None
    /\ result.newly_assigned_tickets = << >>
    /\ \E a \in Agents : SpareCapacity(agent_tickets, a)
    /\ \E id \in DOMAIN tickets :
         tickets[id].status = TICKET_STATUS.OPEN /\ InQueues(Queues, id)

(***************************************************************************)
(* C33  A waiting high-priority ticket is never passed over for the slot   *)
(* of its specialist: create_ticket assigns no medium or low ticket to an  *)
(* agent while, at the start of the call, a high-priority ticket of the    *)
(* agent's specialization waits in the high queue; a drain assigns no      *)
(* medium or low ticket to an agent while, at its end, such a ticket still *)
(* waits.                                                                  *)
(***************************************************************************)
\* An open high-priority ticket of the specialization of agent a is in the
\* high queue hq.
HighWaitsFor(tk, hq, a) ==
    \E i \in 1..Len(hq) :
        /\ tk[hq[i]].priority = "high"
        /\ tk[hq[i]].status = TICKET_STATUS.OPEN
        /\ tk[hq[i]].ticket_type = AGENT_SPECIALIZATIONS[a]

HighNotPassedOver ==
    /\ result'.kind = "created" =>
         LET t == tickets'[result'.ticket_id]
         IN  (t.priority \in {"medium", "low"} /\ t.assigned_agent # None)
             => ~HighWaitsFor(tickets, high_priority_queue, t.assigned_agent)
    /\ result'.kind = "closed" =>
         \A i \in 2..Len(drain_log') :
             LET v == drain_log'[i]
             IN  (v.agent # None /\ tickets'[v.ticket_id].priority \in {"medium", "low"})
                 => ~HighWaitsFor(tickets', high_priority_queue', v.agent)

\* The claim as stated: for every call.
C33_HighNotPassedOver_AnyIds == [][HighNotPassedOver]_vars

\* As amended: for calls made while all ids created are pairwise distinct.
C33_HighNotPassedOver == [][~repeated' => HighNotPassedOver]_vars

\* With distinct ids: a drain has given a freed slot to a medium or low
\* ticket while a high-priority ticket of another type still waits.
C33_Witness ==
    /\ ~repeated
    /\ result.kind = "closed"
    /\ \E i \in 2..Len(drain_log) :
         /\ drain_log[i].agent # None
         /\ tickets[drain_log[i].ticket_id].priority \in {"medium", "low"}
    /\ \E a \in Agents : HighWaitsFor(tickets, high_priority_queue, a)

\* C34: no overtaking within a tier and type.  While all ids created are
\* pairwise distinct, for two tickets of the same priority and the same type
\* the one created later is never pending while the one created earlier is
\* still open in a queue; this covers a ticket assigned at its creation and
\* one assigned by a drain.  Tickets present from the start are pending and
\* never queued, and with distinct ids create_ticket calls use increasing
\* ids, so the ticket created earlier is the one with the smaller id.
C34_NoOvertaking ==
    ~repeated =>
        \A i \in DOMAIN tickets, j \in DOMAIN tickets :
            ( /\ NumPre < i
              /\ i < j
              /\ tickets[i].priority = tickets[j].priority
              /\ tickets[i].ticket_type = tickets[j].ticket_type
              /\ tickets[i].status = TICKET_STATUS.OPEN
              /\ InQueues(Queues, i) )
            => tickets[j].status # TICKET_STATUS.PENDING

\* With distinct ids: two tickets of the same priority and type have waited
\* in a queue together, a drain has assigned the earlier one and the later
\* one still waits.
C34_Witness ==
    /\ ~repeated
    /\ result.kind = "closed"
    /\ \E i \in DOMAIN tickets, j \in DOMAIN tickets :
         /\ NumPre < i
         /\ i < j
         /\ tickets[i].priority = tickets[j].priority
         /\ tickets[i].ticket_type = tickets[j].ticket_type
         /\ tickets[i].status = TICKET_STATUS.PENDING
         /\ \E k \in 1..Len(result.newly_assigned_tickets) : result.newly_assigned_tickets[k][1] = i
         /\ tickets[j].status = TICKET_STATUS.OPEN
         /\ InQueues(Queues, j)

\* A ticket that is open and waits in a queue.
Waiting(ticket_id) ==
    /\ ticket_id \in DOMAIN tickets
    /\ tickets[ticket_id].status = TICKET_STATUS.OPEN
    /\ InQueues(Queues, ticket_id)

QueuesEmpty ==
    /\ high_priority_queue = << >>
    /\ medium_priority_queue = << >>
    /\ low_priority_queue = << >>

NoPending == \A id \in DOMAIN tickets : tickets[id].status # TICKET_STATUS.PENDING

\* The work not yet done: a pending ticket has to be closed; a queue entry
\* has to be assigned and then closed.
Backlog ==
    Cardinality({id \in DOMAIN tickets : tickets[id].status = TICKET_STATUS.PENDING})
      + 2 * (Len(high_priority_queue) + Len(medium_priority_queue)
               + Len(low_priority_queue))

\* The step is a close_ticket call that closes a pending ticket.
ClosesPending ==
    /\ result'.kind = "closed"
    /\ drain_log' # << >>
    /\ tickets[result'.ticket_id].status = TICKET_STATUS.PENDING

\* Queued work is served: closing a pending ticket lowers the backlog, and
\* once no ticket is pending no ticket waits and the three queues are empty.
QueuedWorkIsServed ==
    /\ ClosesPending => Backlog' < Backlog
    /\ NoPending' => QueuesEmpty' /\ \A ticket_id \in LiveIds : ~Waiting(ticket_id)'

WorkloadsConsistent ==
    \A a \in Agents : \A i \in 1..Len(agent_tickets[a]) :
        LET id == agent_tickets[a][i]
        IN  /\ Occurrences(agent_tickets[a], id) = 1
            /\ \A b \in Agents \ {a} : ~Contains(agent_tickets[b], id)
            /\ id \in DOMAIN tickets
            /\ tickets[id].status = TICKET_STATUS.PENDING
            /\ tickets[id].assigned_agent = a

\* C36: workload consistency.  In every state reached with pairwise distinct
\* ids, each id of an agent's workload occurs in it exactly once, occurs in no
\* other agent's workload and names a stored ticket whose status is pending
\* and whose assigned_agent is that agent.
C36_WorkloadsConsistent == ~repeated => WorkloadsConsistent

\* With distinct ids: a close_ticket call has freed a slot and its drain has
\* put a ticket from a queue into a workload that holds other tickets too.
C36_Witness ==
    /\ ~repeated
    /\ result.kind = "closed"
    /\ result.freed_agent # None
    /\ result.newly_assigned_tickets # << >>
    /\ LET id == result.newly_assigned_tickets[1][1]
           a == result.newly_assigned_tickets[1][2]
       IN  /\ Contains(agent_tickets[a], id)
           /\ Len(agent_tickets[a]) = MAX_TICKETS_PER_AGENT

\* The tickets of agent a that the step does not close.
KeptTickets(a) ==
    SelectSeq(agent_tickets[a],
              LAMBDA x : ~(result'.kind = "closed" /\ result'.ticket_id = x))

\* The tickets of a workload that the step does not close stay in it in the
\* same order, and those pending with the agent stay pending with it and
\* enter no other workload and no queue.
NoReassignment ==
    \A a \in Agents :
        /\ IsSubsequence(KeptTickets(a), agent_tickets'[a])
        /\ \A i \in 1..Len(KeptTickets(a)) :
             LET x == KeptTickets(a)[i]
             IN  ( /\ x \in DOMAIN tickets
                   /\ tickets[x].status = TICKET_STATUS.PENDING
                   /\ tickets[x].assigned_agent = a )
                 => /\ tickets'[x].status = TICKET_STATUS.PENDING
                    /\ tickets'[x].assigned_agent = a
                    /\ \A b \in Agents \ {a} :
                         Contains(agent_tickets'[b], x) => Contains(agent_tickets[b], x)
                    /\ InQueues(Queues', x) => InQueues(Queues, x)

\* The claim as stated: for every call.
C37_NoReassignment_AnyIds == [][NoReassignment]_vars

\* C37: no reassignment.  While all ids created are pairwise distinct, a
\* ticket in an agent's workload stays with that agent, in the same order
\* relative to the agent's other tickets, until it is closed: no create_ticket,
\* close_ticket of another ticket or drain moves it to another agent or back
\* to a queue.
C37_NoReassignment == [][~repeated' => NoReassignment]_vars

\* With distinct ids: the second ticket of a full workload has been closed, the
\* tickets around it have kept their order, and the drain has appended a
\* ticket from a queue behind them.
C37_Witness ==
    /\ ~repeated
    /\ result.kind = "closed"
    /\ \E a \in Agents :
         /\ result.freed_agent = a
         /\ result.ticket_id = PreId(a, 2)
         /\ Len(agent_tickets[a]) = MAX_TICKETS_PER_AGENT
         /\ agent_tickets[a][1] = PreId(a, 1)
         /\ agent_tickets[a][2] = PreId(a, 3)
         /\ agent_tickets[a][MAX_TICKETS_PER_AGENT] > NumPre

\* C38: in every state reached by create_ticket calls with pairwise distinct
\* ids and close_ticket calls, the pending_in_queue total that get_status
\* reports equals the number of stored tickets whose status is open, and the
\* listing of each tier's queue holds only tickets of that priority whose
\* status is open.
C38_StatusCountsOpenTickets ==
    (~repeated /\ result.kind = "status") =>
        /\ result.pending_in_queue =
             Cardinality({id \in DOMAIN tickets :
                             tickets[id].status = TICKET_STATUS.OPEN})
        /\ \A q \in 1..3 :
             LET listing == CASE q = 1 -> result.queues.high_priority
                              [] q = 2 -> result.queues.medium_priority
                              [] q = 3 -> result.queues.low_priority
             IN  \A i \in 1..Len(listing) :
                    /\ PriorityTier(tickets[listing[i]].priority) = q
                    /\ tickets[listing[i]].status = TICKET_STATUS.OPEN

\* C39: the drain is idempotent.  A second _process_queues run on the state
\* a close_ticket call and its drain have left assigns nothing, returns an
\* empty list and leaves tickets, workloads and queues as they are.
C39_DrainIdempotent ==
    result.kind = "closed" =>
        LET second == process_queues(tickets, agent_tickets, Queues)
        IN  /\ second.newly_assigned = << >>
            /\ second.tickets = tickets
            /\ second.agent_tickets = agent_tickets
            /\ second.queues = Queues

\* A drain has assigned a ticket and has left two tickets in one queue: a
\* second drain has tickets to visit.
C39_Witness ==
    /\ result.kind = "closed"
    /\ result.newly_assigned_tickets # << >>
    /\ \E q \in 1..3 : Len(Queues[q]) >= 2

====
